---- MODULE Spec2Model ----
(***************************************************************************)
(* Verification model of the emulated Hue bridge (hass-emulated-hue).      *)
(*                                                                         *)
(* The specifications share the definitions below:                         *)
(*   Spec        the v1 API: pairing (link mode) with concurrent requests. *)
(*               Timers are abstracted: a pending call_later may fire at   *)
(*               any moment.                                               *)
(*   SpecAuth    validation and authentication on every route that changes *)
(*               state, with stored and unknown usernames.                 *)
(*   SpecTimed   the link-mode state machine with the event loop's clock   *)
(*               (seconds); a call_later fires when it is due and the      *)
(*               clock does not pass a due callback or a ready task.       *)
(*   SpecDevice  one light device with the wall clock in milliseconds:     *)
(*               the throttling gate, the backend call and the             *)
(*               recomposition of the persisted state.                     *)
(*   SpecConcurrent  two commands to one light in flight at once.          *)
(*   SpecStore   the JSON store: the delayed commit, save_json, shutdown,  *)
(*               crash and restart.                                        *)
(*   SpecCommit  the delayed commit while the process keeps running, with  *)
(*               the fairness of the loop and of the executor.             *)
(*   SpecLights  light ids, the listing, the search and the deletion of    *)
(*               lights.                                                   *)
(*   SpecScenes  the deletion of groups and scenes.                        *)
(***************************************************************************)
EXTENDS Integers, Sequences, FiniteSets, Bags, TLC

VARIABLES
    \* ---- controllers/config.py: Config ----
    users,                    \* _config["users"]: username -> user record
    bridge_config,            \* _config["bridge_config"]: key -> value
    scenes,                   \* _config["scenes"]: the stored scene ids
    groups,                   \* _config["groups"]: group id -> group record
    lights,                   \* _config["lights"]: light id -> light record (with "state")
    link_mode_enabled,        \* Config._link_mode_enabled
    link_mode_discovery_key,  \* Config._link_mode_discovery_key (None or a token)
    entertainment_api,        \* Config._entertainment_api (None or the session)
    \* ---- the event loop ----
    timers,                   \* pending loop.call_later callbacks: bag of [kind, due]
    tasks,                    \* tasks made by loop.create_task, not yet run: bag of [kind, by]
    reqs,                     \* the requests suspended at an await: a bag
    loop_time,                \* the loop's clock, seconds
    secure_strings,           \* number of create_secure_string results handed out
    \* ---- controllers/devices.py ----
    device_cache,             \* __device_cache: entity_id -> device object
    hass,                     \* the backend's state of each entity
    wall_ms,                  \* datetime.now().timestamp(), milliseconds
    \* ---- observations of the step just taken ----
    resp,                     \* the response sent by this step (or NoResp)
    cmd,                      \* the command gated by this step (or NoCmd)
    ran,                      \* the task run by this step (or NoTask)
    \* ---- history ----
    link_enabled_at,          \* loop_time of the last disabled -> enabled transition
    key_set_at,               \* loop_time at which the current token was issued
    pairings,                 \* successful POST /api since link mode was last enabled
    dead_tokens,              \* tokens that expired or were used
    last_accept_ms,           \* wall_ms of the last accepted command (None: none yet)
    last_accepted,            \* <<>> or <<the last accepted command: its control
                              \* state and the backend state when it was accepted>>
    \* ---- the JSON store: Config._saver_task and utils.save_json ----
    saver_task,               \* Config._saver_task: none, sleeping, writing, done, cancelled
    jobs,                     \* save_json calls running in the executor: a bag
    disk,                     \* the live file and its .backup sibling
    process,                  \* running, stopping (in async_stop), stopped, crashed
    \* ---- apiv1.py ----
    new_lights,               \* HueApiV1Endpoints._new_lights: light ids
    \* ---- history ----
    allocated,                \* entity_id -> the light_id last returned for it by
                              \* async_entity_id_to_light_id
    \* ---- controllers/entertainment.py ----
    socket_daemons,           \* openssl s_server subprocesses that are alive
    interrupted_runs,         \* async_run tasks of stopped sessions, not yet run
    stdout,                   \* the bytes the subprocess has written to its stdout
    nread,                    \* how many of them async_run has read
    buffer,                   \* async_run: buffer
    likely_pktsize,           \* EntertainmentAPI._likely_pktsize
    packets,                  \* the packets handed to __process_packet, in order
    stream_calls              \* the commands the streamed light records executed

vars == <<users, bridge_config, scenes, groups, lights, link_mode_enabled,
          link_mode_discovery_key, entertainment_api, timers, tasks, reqs,
          loop_time, secure_strings, device_cache, hass, wall_ms, resp, cmd,
          ran, link_enabled_at, key_set_at, pairings, dead_tokens,
          last_accept_ms, last_accepted, saver_task, jobs, disk, process,
          new_lights, allocated, socket_daemons, interrupted_runs, stdout,
          nread, buffer, likely_pktsize, packets, stream_calls>>

configVars == <<users, bridge_config, scenes, groups, link_mode_enabled,
                link_mode_discovery_key, entertainment_api>>
loopVars   == <<timers, tasks, reqs, loop_time, secure_strings>>
linkHist   == <<link_enabled_at, key_set_at, pairings, dead_tokens>>
deviceVars == <<lights, device_cache, hass, wall_ms, last_accept_ms, last_accepted>>
storeVars  == <<saver_task, jobs, disk, process>>
daemonVars == <<socket_daemons, interrupted_runs>>
parserVars == <<stdout, nread, buffer, likely_pktsize, packets, stream_calls>>
streamVars == <<daemonVars, parserVars>>

-----------------------------------------------------------------------------
(* Python's None, per field type.                                          *)
None  == 0 - 1      \* in an integer field
NoneT == <<>>       \* in a tuple field
NoneS == "None"     \* in a string field

Abs(x) == IF x < 0 THEN 0 - x ELSE x
Min(a, b) == IF a < b THEN a ELSE b

-----------------------------------------------------------------------------
(* Bounds of the model.                                                    *)
MaxWallTicks == 2   \* the wall clock advances at most this many times
MaxInflight  == 2   \* API requests suspended at an await at the same time
MaxCalls     == 1   \* device commands awaiting the backend at the same time

(* Program constants.                                                      *)
DEFAULT_THROTTLE_MS == 0
BRIGHTNESS_THROTTLE_THRESHOLD == 64
DEFAULT_TRANSITION_MS == 400

(* Granularity of the wall clock and the values the inputs are drawn from. *)
WallTickMs     == 50
ThrottleValues == {DEFAULT_THROTTLE_MS, 100}
BriValues      == {10, 74, 75}
CtValues       == {300}

-----------------------------------------------------------------------------
(* controllers/models.py: EntityState.  transition_seconds is held in      *)
(* milliseconds (seconds * 1000) to stay within the integers.              *)
ALL_STATES == <<"power_state", "transition_seconds", "brightness", "color_temp",
                "hue_saturation", "xy_color", "rgb_color", "flash_state",
                "effect", "reachable", "color_mode">>

IntFields   == {"transition_seconds", "brightness", "color_temp"}
TupleFields == {"hue_saturation", "xy_color", "rgb_color"}
StrFields   == {"flash_state", "effect", "color_mode"}

IsNone(f, v) ==
    IF f \in IntFields THEN v = None
    ELSE IF f \in TupleFields THEN v = NoneT
    ELSE IF f \in StrFields THEN v = NoneS
    ELSE FALSE

EntityState(power, transition) ==
    [power_state |-> power, transition_seconds |-> transition,
     brightness |-> None, color_temp |-> None, hue_saturation |-> NoneT,
     xy_color |-> NoneT, rgb_color |-> NoneT, flash_state |-> NoneS,
     effect |-> NoneS, reachable |-> TRUE, color_mode |-> NoneS]

(* EntityState.from_config: every field is read from the stored dict.      *)
from_config(states) ==
    [f \in {ALL_STATES[i] : i \in 1..Len(ALL_STATES)} |-> states[f]]

(* pydantic's BaseModel.__eq__ (the class defines none of its own): two    *)
(* states are equal iff every field is equal.                              *)
StateEq(a, b) == \A i \in 1..Len(ALL_STATES) : a[ALL_STATES[i]] = b[ALL_STATES[i]]

(* Python truthiness of an optional integer.                               *)
Truthy(x) == x # None /\ x # 0

(* EntityState.to_hass_data: the service data of turn_on; a key that is    *)
(* not in the dict is None.  transition is in milliseconds.                *)
to_hass_data(state) ==
    [brightness |-> IF Truthy(state.brightness) THEN state.brightness ELSE None,
     color_temp |-> IF Truthy(state.color_temp) THEN state.color_temp ELSE None,
     hs_color   |-> IF ~Truthy(state.color_temp) THEN state.hue_saturation
                    ELSE NoneT,
     xy_color   |-> IF ~Truthy(state.color_temp) /\ state.hue_saturation = NoneT
                    THEN state.xy_color ELSE NoneT,
     rgb_color  |-> IF ~Truthy(state.color_temp) /\ state.hue_saturation = NoneT
                       /\ state.xy_color = NoneT
                    THEN state.rgb_color ELSE NoneT,
     effect     |-> state.effect,
     flash      |-> state.flash_state,
     transition |-> IF state.flash_state # NoneS THEN None
                    ELSE state.transition_seconds]

clamp(value, min_value, max_value) ==
    IF value < min_value THEN min_value
    ELSE IF value > max_value THEN max_value ELSE value

-----------------------------------------------------------------------------
(* controllers/devices.py                                                  *)

HASS_STATE_ON          == "on"
HASS_STATE_UNAVAILABLE == "unavailable"

(* async_get_device: the device class chosen from supported_color_modes.   *)
DeviceClass(modes) ==
    IF modes \cap {"hs", "xy", "rgb", "rgbw", "rgbww"} # {}
       /\ modes \cap {"color_temp", "rgbw", "rgbww", "white"} # {}
    THEN "RGBWWDevice"
    ELSE IF modes \cap {"hs", "xy", "rgb"} # {} THEN "RGBDevice"
    ELSE IF "color_temp" \in modes THEN "CTDevice"
    ELSE IF "brightness" \in modes THEN "BrightnessDevice"
    ELSE "OnOffDevice"

IsBrightness(kind) == kind # "OnOffDevice"
IsCT(kind)         == kind \in {"CTDevice", "RGBWWDevice"}
IsRGB(kind)        == kind \in {"RGBDevice", "RGBWWDevice"}

(* _update_device_state, through the inheritance chain of each class: the  *)
(* EntityState read from the backend's state dict.                         *)
update_device_state(kind, hd) ==
    LET base == EntityState(hd.state = HASS_STATE_ON, None)
        s0 == [base EXCEPT !.reachable = (hd.state # HASS_STATE_UNAVAILABLE)]
        s1 == IF IsBrightness(kind)
              THEN [s0 EXCEPT !.brightness = hd.attributes.brightness] ELSE s0
        s2 == IF IsCT(kind)
              THEN [s1 EXCEPT !.color_temp = hd.attributes.color_temp,
                              !.color_mode = hd.attributes.color_mode]
              ELSE s1
        s3 == IF IsRGB(kind)
              THEN [s2 EXCEPT !.hue_saturation = hd.attributes.hs_color,
                              !.xy_color = hd.attributes.xy_color,
                              !.rgb_color = hd.attributes.rgb_color,
                              !.color_mode = hd.attributes.color_mode]
              ELSE s2
    IN s3

(* _async_update_config_states: each field from the command if it set it,  *)
(* else from the backend state if it has it, else the stored value.        *)
update_config_states(stored, hass_state, control_state) ==
    [f \in DOMAIN stored |->
        IF control_state # <<>> /\ ~IsNone(f, control_state[1][f])
        THEN control_state[1][f]
        ELSE IF hass_state # <<>> /\ ~IsNone(f, hass_state[1][f])
        THEN hass_state[1][f]
        ELSE stored[f]]

(* The gate with a throttle window that includes its end.                  *)
OnOff_update_allowed_Strict(dev, persisted, control_state, now) ==
    IF StateEq(persisted, control_state)
    THEN [allowed |-> FALSE, last_update |-> dev.last_update]
    ELSE IF dev.throttle_ms = None \/ dev.throttle_ms = 0
    THEN [allowed |-> TRUE, last_update |-> dev.last_update]
    ELSE IF now - dev.last_update <= dev.throttle_ms
    THEN [allowed |-> FALSE, last_update |-> dev.last_update]
    ELSE [allowed |-> TRUE, last_update |-> now]

(* OnOffDevice._async_update_allowed: [allowed, last_update].              *)
OnOff_update_allowed(dev, persisted, control_state, now) ==
    IF StateEq(persisted, control_state)
    THEN [allowed |-> FALSE, last_update |-> dev.last_update]
    ELSE IF dev.throttle_ms = None \/ dev.throttle_ms = 0
    THEN [allowed |-> TRUE, last_update |-> dev.last_update]
    ELSE IF now - dev.last_update < dev.throttle_ms
    THEN [allowed |-> FALSE, last_update |-> dev.last_update]
    ELSE [allowed |-> TRUE, last_update |-> now]

(* The brightness gate without the large-delta override.                   *)
Brightness_update_allowed_NoOverride(dev, persisted, control_state, now) ==
    OnOff_update_allowed(dev, persisted, control_state, now)

(* BrightnessDevice._async_update_allowed: the large-delta override.       *)
Brightness_update_allowed(dev, persisted, control_state, now) ==
    LET super == OnOff_update_allowed(dev, persisted, control_state, now)
    IN  IF super.allowed THEN super
        ELSE IF Truthy(control_state.brightness) /\ Truthy(persisted.brightness)
                /\ Abs(persisted.brightness - control_state.brightness)
                     > BRIGHTNESS_THROTTLE_THRESHOLD
        THEN [super EXCEPT !.allowed = TRUE]
        ELSE super

update_allowed(dev, persisted, control_state, now) ==
    IF IsBrightness(dev.kind)
    THEN Brightness_update_allowed(dev, persisted, control_state, now)
    ELSE OnOff_update_allowed(dev, persisted, control_state, now)

(* OnOffDevice.__init__ for a stored light record.                         *)
NewDevice(kind, light_id, config, now) ==
    [kind |-> kind, light_id |-> light_id, enabled |-> config.enabled,
     throttle_ms |-> config.throttle, last_update |-> now,
     default_transition |-> IF config.throttle * 1000 > DEFAULT_TRANSITION_MS
                            THEN config.throttle ELSE DEFAULT_TRANSITION_MS,
     hass_state |-> <<>>, last_state_update |-> now]

-----------------------------------------------------------------------------
(* The control classes (OnOffControl ... RGBWControl) and                  *)
(* apiv1.py: HueApiV1Endpoints.__async_light_action.                       *)

HUE_ATTR_HUE_MAX == 65535
HUE_ATTR_SAT_MAX == 254

(* A wrap whose range includes max_value.                                  *)
wrap_number_Inclusive(value, start_value, max_value) ==
    ((value - start_value) % (max_value - start_value + 1)) + start_value

wrap_number(value, start_value, max_value) ==
    ((value - start_value) % (max_value - start_value)) + start_value

(* __async_entity_to_hue for an RGBDevice: "hue" and "sat" of the answer,  *)
(* int() of the scaled backend values.                                     *)
entity_to_hue_hs(hue_sat) ==
    <<(hue_sat[1] * HUE_ATTR_HUE_MAX) \div 360,
      (hue_sat[2] * HUE_ATTR_SAT_MAX) \div 100>>

(* OnOffControl.set_transition_ms *)
set_transition_ms(cs, throttle_ms, transition_ms, respect_throttle) ==
    [cs EXCEPT !.transition_seconds =
        IF respect_throttle /\ transition_ms < throttle_ms
        THEN throttle_ms ELSE transition_ms]

set_power_state(cs, power_state) == [cs EXCEPT !.power_state = power_state]

(* BrightnessControl.set_brightness *)
set_brightness(cs, brightness) ==
    [cs EXCEPT !.brightness = clamp(brightness, 1, 255)]

set_color_temperature(cs, color_temperature) ==
    [cs EXCEPT !.color_temp = color_temperature, !.color_mode = "color_temp"]

set_hue_sat(cs, hue, sat) ==
    [cs EXCEPT !.hue_saturation = <<hue, sat>>, !.color_mode = "hs"]

set_xy(cs, x, y) == [cs EXCEPT !.xy_color = <<x, y>>, !.color_mode = "xy"]

set_effect(cs, effect) == [cs EXCEPT !.effect = effect]

(* The device properties the control classes read. *)
dev_transition_seconds(dev, persisted) ==
    IF Truthy(persisted.transition_seconds)
    THEN persisted.transition_seconds ELSE dev.default_transition
dev_color_temp(persisted) ==
    IF Truthy(persisted.color_temp) THEN persisted.color_temp ELSE 153
dev_hue_sat(persisted) ==
    IF persisted.hue_saturation # NoneT THEN persisted.hue_saturation ELSE <<0, 0>>
dev_color_mode(persisted) ==
    IF persisted.color_mode # NoneS THEN persisted.color_mode ELSE "color_temp"

(* set_flash of BrightnessControl, CTControl, RGBControl and RGBWControl.  *)
set_flash(cs, kind, persisted, flash) ==
    LET f == [cs EXCEPT !.flash_state = flash]
        ct == set_color_temperature(f, dev_color_temp(persisted))
        hs == set_hue_sat(f, dev_hue_sat(persisted)[1], dev_hue_sat(persisted)[2])
    IN  IF kind = "RGBWWDevice"
        THEN IF dev_color_mode(persisted) = "color_temp" THEN ct ELSE hs
        ELSE IF kind = "CTDevice" THEN ct
        ELSE IF kind = "RGBDevice" THEN hs
        ELSE f

(* A request body of PUT .../lights/{id}/state; an absent key is None.     *)
Body(on, bri, transitiontime, ct) ==
    [json |-> TRUE, on |-> on, bri |-> bri, transitiontime |-> transitiontime,
     ct |-> ct, hue |-> None, sat |-> None, xy |-> NoneT, effect |-> NoneS, alert |-> NoneS]

(* __async_light_action up to call.async_execute(): the control state      *)
(* built from the body, or raised = TRUE when a control method that the    *)
(* device class lacks is called outside contextlib.suppress.               *)
light_action(dev, persisted, body) ==
    LET k  == dev.kind
        c0 == EntityState(persisted.power_state, dev_transition_seconds(dev, persisted))
        c1 == IF Truthy(body.transitiontime)
              THEN set_transition_ms(c0, dev.throttle_ms, body.transitiontime * 100, FALSE)
              ELSE set_transition_ms(c0, dev.throttle_ms, 400, FALSE)
        off == body.on = "false"
        c2 == set_power_state(c1, ~off)
        c3 == IF Truthy(body.bri) /\ IsBrightness(k)
              THEN set_brightness(c2, body.bri) ELSE c2
        c4 == IF Truthy(body.sat) /\ Truthy(body.hue) /\ IsRGB(k)
              THEN set_hue_sat(c3,
                     (wrap_number(body.hue, 0, HUE_ATTR_HUE_MAX) * 360) \div HUE_ATTR_HUE_MAX,
                     (wrap_number(body.sat, 0, HUE_ATTR_SAT_MAX) * 100) \div HUE_ATTR_SAT_MAX)
              ELSE c3
        c5 == IF Truthy(body.ct) THEN set_color_temperature(c4, body.ct) ELSE c4
        c6 == IF body.xy # NoneT /\ Len(body.xy) = 2 /\ IsRGB(k)
              THEN set_xy(c5, body.xy[1], body.xy[2]) ELSE c5
        c7 == IF body.effect # NoneS /\ IsRGB(k) THEN set_effect(c6, body.effect) ELSE c6
        c8 == IF body.alert = "select" /\ IsBrightness(k)
              THEN set_flash(c7, k, persisted, "short")
              ELSE IF body.alert = "lselect" /\ IsBrightness(k)
              THEN set_flash(c7, k, persisted, "long")
              ELSE c7
    IN  [raised |-> ~off /\ Truthy(body.ct) /\ ~IsCT(k),
         control_state |-> IF off THEN c2 ELSE c8]

-----------------------------------------------------------------------------
(* The backend (Home Assistant) as the device layer sees it.               *)
Entities == {"light.a"}

HassDict(state, brightness, color_temp, modes) ==
    [state |-> state,
     attributes |-> [brightness |-> brightness, color_temp |-> color_temp,
                     hs_color |-> NoneT, xy_color |-> NoneT, rgb_color |-> NoneT,
                     color_mode |-> IF color_temp # None THEN "color_temp" ELSE NoneS,
                     supported_color_modes |-> modes]]

(* The states a backend light with the given colour modes reports: an off  *)
(* or unavailable light reports no brightness and no colour.               *)
HassDicts(modes) ==
    {HassDict("off", None, None, modes),
     HassDict("on", IF "brightness" \in modes \/ "color_temp" \in modes
                    THEN 75 ELSE None,
              IF "color_temp" \in modes THEN 300 ELSE None, modes)}

SupportedModes == {{}, {"brightness"}, {"color_temp"}}

-----------------------------------------------------------------------------
(* Requests and tasks suspended at an await.                               *)
NoResp  == [sent |-> FALSE]
NoCmd   == [gated |-> FALSE]
NoTask  == [kind |-> "none"]

Request(route, username, arg, body) ==
    [pc |-> "text", route |-> route, username |-> username, arg |-> arg,
     body |-> body, control_state |-> <<>>, todo |-> <<>>]

Response(rq, kind, type) ==
    [sent |-> TRUE, route |-> rq.route, username |-> rq.username, arg |-> rq.arg,
     body |-> rq.body, stage |-> rq.pc, kind |-> kind, type |-> type,
     data |-> None]

(* A create_save_task that starts a new delay whatever the task does.      *)
create_save_task_Always(task) == "sleeping"

(* Config.create_save_task: a delayed commit is scheduled unless one is    *)
(* pending (a finished or cancelled task is done()).                       *)
create_save_task(task) ==
    IF task \in {"none", "done", "cancelled"} THEN "sleeping" ELSE task

(* The end of async_set_storage_value: "if needs_save: create_save_task";  *)
(* called is whether the step reached async_set_storage_value.             *)
needs_save(called) ==
    /\ saver_task' = IF called THEN create_save_task(saver_task) ELSE saver_task
    /\ UNCHANGED <<jobs, disk, process, new_lights, allocated, streamVars>>

(* The step touches neither the store nor _new_lights nor the stream.      *)
NoStore == UNCHANGED <<storeVars, new_lights, allocated, streamVars>>

(* Config._config, the document that save_json serialises.                 *)
Document ==
    [users |-> users, bridge_config |-> bridge_config, scenes |-> scenes,
     groups |-> groups, lights |-> lights]
(* What load_json returns when the file cannot be read or parsed: {}.      *)
EmptyDocument ==
    [users |-> <<>>, bridge_config |-> <<>>, scenes |-> <<>>, groups |-> <<>>,
     lights |-> <<>>]

(* A file: absent, opened for writing but not written through, or holding  *)
(* a whole document.                                                       *)
NoFile    == [exists |-> FALSE, complete |-> FALSE, doc |-> <<>>]
EmptyFile == [exists |-> TRUE, complete |-> FALSE, doc |-> <<>>]
File(doc) == [exists |-> TRUE, complete |-> TRUE, doc |-> <<doc>>]

(* A call of save_json in the executor: who awaits it (the saver task,     *)
(* async_stop or a request), where it is, and the text it serialised.      *)
Job(by, rq) == [by |-> by, rq |-> rq, pc |-> "start", json_data |-> <<>>]

(* A stored scene: its id and its "group" key (None: it has no such key).  *)
(* _config["scenes"] is a dict, kept here in its insertion order.          *)
Scene(id, group) == [id |-> id, group |-> group]
ItemIds(items) == {items[i].id : i \in 1..Len(items)}
(* dict.pop(subkey, None) *)
pop(items, id) == SelectSeq(items, LAMBDA s : s.id # id)
(* del of one key of a dict that is kept as a function *)
popkey(section, subkey) == [k \in DOMAIN section \ {subkey} |-> section[k]]

ENTERTAINMENT_UPDATE_STATE_UPDATE_RATE == 1000

(* async_update_state goes past its two guards and saves the state.        *)
refreshes(dev, now, entertainment_active) ==
    /\ ~(entertainment_active
          /\ now - dev.last_state_update < ENTERTAINMENT_UPDATE_STATE_UPDATE_RATE)
    /\ dev.enabled

(* Config.async_entity_id_to_light_id for an entity that has a record.     *)
LightIdOf(entity_id) == CHOOSE l \in DOMAIN lights : lights[l].entity_id = entity_id

(* OnOffDevice.async_update_state: [dev, state] after the refresh.         *)
async_update_state(dev, stored, hd, now, entertainment_active) ==
    IF entertainment_active
       /\ now - dev.last_state_update < ENTERTAINMENT_UPDATE_STATE_UPDATE_RATE
    THEN [dev |-> dev, state |-> stored]
    ELSE IF dev.enabled
    THEN LET hs == <<update_device_state(dev.kind, hd)>>
         IN  [dev |-> [dev EXCEPT !.last_state_update = now, !.hass_state = hs],
              state |-> update_config_states(stored, hs, <<>>)]
    ELSE [dev |-> dev, state |-> stored]

(* async_get_device: the cached device, or a new one that is refreshed     *)
(* from the backend and cached: [dev, state].                              *)
async_get_device(entity_id) ==
    LET l == LightIdOf(entity_id) IN
    IF entity_id \in DOMAIN device_cache
    THEN [dev |-> device_cache[entity_id], state |-> lights[l].state]
    ELSE async_update_state(
            NewDevice(DeviceClass(hass[entity_id].attributes.supported_color_modes),
                      l, lights[l], wall_ms),
            from_config(lights[l].state), hass[entity_id], wall_ms,
            entertainment_api # <<>>)

CachePut(entity_id, dev) ==
    [e \in DOMAIN device_cache \cup {entity_id} |->
        IF e = entity_id THEN dev ELSE device_cache[e]]

(* async_put_light_state, from the handler's first line to the await of    *)
(* the backend call in OnOffDevice.async_execute (or to the response when  *)
(* the gate rejects the command or the handler raises).                    *)
PutLightState(rq, others) ==
    LET l == rq.arg IN
    IF l \notin DOMAIN lights \/ lights[l].entity_id \notin DOMAIN hass
    THEN \* async_entity_id_from_light_id raises
         /\ resp' = Response(rq, "exception", 500)
         /\ reqs' = others
         /\ cmd' = NoCmd
         /\ NoStore
         /\ UNCHANGED <<lights, device_cache, last_accept_ms, last_accepted>>
    ELSE
    LET e    == lights[l].entity_id
        got  == async_get_device(e)
        call == light_action(got.dev, got.state, rq.body)
        gate == update_allowed(got.dev, got.state, call.control_state, wall_ms)
        dev2 == [got.dev EXCEPT !.last_update = gate.last_update]
    IN  /\ lights' = [lights EXCEPT ![l].state = got.state]
        /\ needs_save(e \notin DOMAIN device_cache
                      /\ refreshes(got.dev, wall_ms, entertainment_api # <<>>))
        /\ IF call.raised
           THEN /\ device_cache' = CachePut(e, got.dev)
                /\ resp' = Response(rq, "exception", 500)
                /\ reqs' = others
                /\ cmd' = NoCmd
                /\ UNCHANGED <<last_accept_ms, last_accepted>>
           ELSE /\ device_cache' = CachePut(e, dev2)
                /\ cmd' = [gated |-> TRUE, kind |-> got.dev.kind,
                           throttle_ms |-> got.dev.throttle_ms,
                           control_state |-> call.control_state,
                           persisted |-> got.state,
                           since_accept |-> IF last_accept_ms = None THEN None
                                            ELSE wall_ms - last_accept_ms,
                           called |-> gate.allowed]
                /\ IF gate.allowed
                   THEN /\ reqs' = others (+) SetToBag(
                                {[rq EXCEPT !.pc = "call",
                                            !.control_state = <<call.control_state>>]})
                        /\ resp' = NoResp
                        /\ last_accept_ms' = wall_ms
                        /\ last_accepted' = <<[control_state |-> call.control_state,
                                                hass |-> hass[e]]>>
                   ELSE /\ reqs' = others
                        /\ resp' = Response(rq, "success", 0)
                        /\ UNCHANGED <<last_accept_ms, last_accepted>>

(* The backend call of async_execute returns: the persisted state is       *)
(* recomposed from the command and the response is sent.                   *)
CallReturns(rq) ==
    /\ BagIn(rq, reqs) /\ rq.pc = "call"
    /\ LET l  == rq.arg
           e  == lights[l].entity_id
       IN  /\ lights' = [lights EXCEPT ![l].state =
                  update_config_states(lights[l].state, device_cache[e].hass_state,
                                       rq.control_state)]
           /\ resp' = Response(rq, "success", 0)
    /\ reqs' = reqs (-) SetToBag({rq})
    /\ cmd' = NoCmd /\ ran' = NoTask /\ needs_save(TRUE)
    /\ UNCHANGED <<configVars, timers, tasks, loop_time, secure_strings,
                   device_cache, hass, wall_ms, linkHist, last_accept_ms, last_accepted>>

(* The backend sends a state_changed event of an entity, whose state hd    *)
(* may repeat every modelled attribute (another attribute changed); the    *)
(* callback that async_get_device registered refreshes the cached device.  *)
StateChanged(e, hd) ==
    /\ hd \in HassDicts(hass[e].attributes.supported_color_modes)
    /\ hass' = [hass EXCEPT ![e] = hd]
    /\ IF e \in DOMAIN device_cache
       THEN LET l == device_cache[e].light_id
                r == async_update_state(device_cache[e], lights[l].state, hd,
                                        wall_ms, entertainment_api # <<>>)
            IN  /\ device_cache' = [device_cache EXCEPT ![e] = r.dev]
                /\ lights' = [lights EXCEPT ![l].state = r.state]
       ELSE UNCHANGED <<device_cache, lights>>
    /\ resp' = NoResp /\ cmd' = NoCmd /\ ran' = NoTask
    /\ needs_save(e \in DOMAIN device_cache
                  /\ refreshes(device_cache[e], wall_ms, entertainment_api # <<>>))
    /\ UNCHANGED <<configVars, loopVars, wall_ms, linkHist, last_accept_ms, last_accepted>>

(* The wall clock advances.                                                *)
WallTick ==
    /\ wall_ms < MaxWallTicks * WallTickMs
    /\ wall_ms' = wall_ms + WallTickMs
    /\ resp' = NoResp /\ cmd' = NoCmd /\ ran' = NoTask /\ NoStore
    /\ UNCHANGED <<configVars, loopVars, lights, device_cache, hass, linkHist,
                   last_accept_ms, last_accepted>>

(* The request bodies of PUT .../lights/{id}/state that are sent.          *)
LightBodies ==
    {Body("absent", bri, None, None) : bri \in {None} \cup BriValues}
    \cup {Body("false", None, None, None), Body("true", 10, 10, None),
          Body("absent", None, None, 300)}

(* A client with a valid key sends PUT .../lights/{id}/state.              *)
DevCommand(body) ==
    /\ BagCardinality(reqs) < MaxCalls
    /\ PutLightState(Request("put_light_state", 1, 1, body), reqs)
    /\ ran' = NoTask
    /\ UNCHANGED <<configVars, timers, tasks, loop_time, secure_strings, hass,
                   wall_ms, linkHist>>

StoredStates ==
    {EntityState(FALSE, None), [EntityState(TRUE, 400) EXCEPT !.brightness = 10]}

(* Config.__init__ and the start of the loop; the stored document is set   *)
(* by the specification's own initial predicate.                           *)
InitConfig ==
    /\ bridge_config = <<>> /\ scenes = <<>>
    /\ link_mode_enabled = FALSE /\ link_mode_discovery_key = None
    /\ entertainment_api = <<>>
    /\ timers = EmptyBag /\ tasks = EmptyBag /\ loop_time = 0
    /\ reqs = EmptyBag
    /\ resp = NoResp /\ cmd = NoCmd /\ ran = NoTask
    /\ link_enabled_at = None /\ key_set_at = None
    /\ pairings = 0 /\ dead_tokens = {}
    /\ last_accept_ms = None /\ last_accepted = <<>>
    /\ device_cache = <<>> /\ wall_ms = 0
    /\ saver_task = "none" /\ jobs = EmptyBag /\ process = "running"
    /\ new_lights = {} /\ allocated = <<>>
    /\ socket_daemons = 0 /\ interrupted_runs = 0
    /\ stdout = <<>> /\ nread = 0 /\ buffer = <<>> /\ likely_pktsize = 0
    /\ packets = <<>> /\ stream_calls = <<>>

(* Config.__init__ loaded the document from the live file.                 *)
InitDisk == disk = [live |-> File(Document), backup |-> NoFile]

(* A stored user: create_secure_string(40) number n, registered by name.   *)
User(n, name) == [username |-> n, name |-> name, last_use_date |-> None]

InitDevice ==
    /\ InitConfig
    /\ users = (1 :> [User(1, "app#a") EXCEPT !.last_use_date = 0])
    /\ secure_strings = 1
    /\ groups = <<>>
    /\ \E t \in ThrottleValues, st \in StoredStates :
          lights = (1 :> [entity_id |-> "light.a", enabled |-> TRUE,
                          throttle |-> t, state |-> st])
    /\ \E m \in SupportedModes :
          hass \in [Entities -> HassDicts(m)]
    /\ InitDisk

NextDevice ==
    \/ \E body \in LightBodies : DevCommand(body)
    \/ \E rq \in BagToSet(reqs) : CallReturns(rq)
    \/ \E e \in Entities :
          \E hd \in HassDicts(hass[e].attributes.supported_color_modes) :
             StateChanged(e, hd)
    \/ WallTick

SpecDevice == InitDevice /\ [][NextDevice]_vars

-----------------------------------------------------------------------------
(* controllers/config.py: users and link mode.                             *)

MaxSecureStrings == 2   \* create_secure_string results handed out
MaxTimers        == 2   \* call_later callbacks pending at the same time
MaxTasks         == 1   \* created tasks waiting to run at the same time

LINK_MODE_SECONDS == 300

(* utils.create_secure_string: a string that was not handed out before.    *)
create_secure_string(issued) == issued + 1

(* Config.async_get_user: the users after the lookup, which stamps the     *)
(* "last use date" of a user it finds.                                     *)
async_get_user(us, username, now) ==
    IF username \in DOMAIN us
    THEN [us EXCEPT ![username].last_use_date = now]
    ELSE us

(* A creation that does not look the devicetype up.                        *)
async_create_user_NoLookup(us, devicetype, issued) ==
    LET username == create_secure_string(issued)
    IN  [users |-> [u \in DOMAIN us \cup {username} |->
                       IF u = username THEN User(username, devicetype) ELSE us[u]],
         issued |-> username, user |-> User(username, devicetype)]

(* Config.async_create_user past the link-mode test: [users, user, issued] *)
async_create_user(us, devicetype, issued) ==
    IF \E u \in DOMAIN us : us[u].name = devicetype
    THEN [users |-> us, issued |-> issued,
          user |-> us[CHOOSE u \in DOMAIN us : us[u].name = devicetype]]
    ELSE LET username == create_secure_string(issued)
             user_obj == User(username, devicetype)
         IN  [users |-> [u \in DOMAIN us \cup {username} |->
                            IF u = username THEN user_obj ELSE us[u]],
              issued |-> username,
              user |-> user_obj]

Timer(kind, now) == [kind |-> kind, due |-> now + LINK_MODE_SECONDS]
Task(kind, by)   == [kind |-> kind, by |-> by]

(* The change to the link-mode flag without the call_later.                *)
async_enable_link_mode_NoTimer(enabled, pending, now) ==
    [enabled |-> TRUE, timers |-> pending]

(* Config.async_enable_link_mode: [enabled, timers].                       *)
async_enable_link_mode(enabled, pending, now) ==
    IF enabled
    THEN [enabled |-> enabled, timers |-> pending]
    ELSE [enabled |-> TRUE,
          timers |-> pending (+) SetToBag({Timer("disable_link_mode", now)})]

(* A disable that leaves the flag as it is.                                *)
async_disable_link_mode_Keep(enabled) == enabled

(* Config.async_disable_link_mode *)
async_disable_link_mode(enabled) == FALSE

(* Bookkeeping of the link-mode history when the flag and the token take   *)
(* their next values.                                                      *)
LinkHistory(paired) ==
    /\ link_enabled_at' = IF ~link_mode_enabled /\ link_mode_enabled'
                          THEN loop_time ELSE link_enabled_at
    /\ pairings' = IF ~link_mode_enabled /\ link_mode_enabled' THEN 0
                   ELSE IF paired THEN pairings + 1 ELSE pairings
    /\ key_set_at' = IF link_mode_discovery_key' # link_mode_discovery_key
                        /\ link_mode_discovery_key' # None
                     THEN loop_time ELSE key_set_at
    /\ dead_tokens' = IF link_mode_discovery_key' # link_mode_discovery_key
                         /\ link_mode_discovery_key # None
                      THEN dead_tokens \cup {link_mode_discovery_key}
                      ELSE dead_tokens

(* The step sends the response r and the request rq is over.               *)
Respond(rq, r) ==
    /\ resp' = r
    /\ reqs' = reqs (-) SetToBag({rq})

-----------------------------------------------------------------------------
(* apiv1.py: check_request and the pairing handlers.                       *)

(* A check_request that checks no username.                                *)
CheckUser_Never(route) == FALSE

(* check_request(check_user): the routes whose decorator checks the user;  *)
(* the catch-all checks it for GET only.                                   *)
CheckUser(route) == route \notin {"post_auth", "link", "unknown_PUT",
                                  "unknown_POST", "unknown_DELETE"}

HomeAssistantTypes == {"home-assistant", "home-assistant#x"}

(* The body of POST /api: not JSON, or a dict with or without devicetype.  *)
InvalidJson == [json |-> FALSE]
PostBody(devicetype) == [json |-> TRUE, devicetype |-> devicetype]
(* The body of PUT /api/{u}/config; an absent key is NoneS.                *)
ConfigBody(linkbutton, name) ==
    [json |-> TRUE, linkbutton |-> linkbutton, name |-> name]

(* check_request for a PUT or POST, and the catch-all handler, up to the   *)
(* await of request.text(): an unknown username is refused before the body *)
(* is read, a known one has its use stamped.                               *)
Receive(rq) ==
    /\ BagCardinality(reqs) < MaxInflight
    /\ IF CheckUser(rq.route) /\ rq.username \notin DOMAIN users
       THEN /\ resp' = Response(rq, "error", 1)
            /\ UNCHANGED <<users, reqs>>
       ELSE /\ users' = IF CheckUser(rq.route)
                        THEN async_get_user(users, rq.username, loop_time)
                        ELSE users
            /\ reqs' = reqs (+) SetToBag({rq})
            /\ resp' = NoResp
    /\ cmd' = NoCmd /\ ran' = NoTask
    /\ needs_save(CheckUser(rq.route) /\ rq.username \in DOMAIN users)
    /\ UNCHANGED <<bridge_config, scenes, groups, link_mode_enabled,
                   link_mode_discovery_key, entertainment_api, timers, tasks,
                   loop_time, secure_strings, deviceVars, linkHist>>

(* check_request: the body is not JSON.                                    *)
InvalidBody(rq) ==
    /\ BagIn(rq, reqs) /\ rq.pc = "text"
    /\ rq.route \notin {"unknown_PUT", "unknown_POST", "unknown_DELETE"}
    /\ ~rq.body.json
    /\ Respond(rq, Response(rq, "error", 2))
    /\ cmd' = NoCmd /\ ran' = NoTask /\ NoStore
    /\ UNCHANGED <<configVars, timers, tasks, loop_time, secure_strings,
                   deviceVars, linkHist>>

(* async_unknown_request for a method other than GET.                      *)
async_unknown_request(rq) ==
    /\ BagIn(rq, reqs) /\ rq.pc = "text"
    /\ rq.route \in {"unknown_PUT", "unknown_POST", "unknown_DELETE"}
    /\ Respond(rq, Response(rq, "error", 404))
    /\ cmd' = NoCmd /\ ran' = NoTask /\ NoStore
    /\ UNCHANGED <<configVars, timers, tasks, loop_time, secure_strings,
                   deviceVars, linkHist>>

(* A link-mode test that never finds link mode off.                        *)
link_mode_off_Never(enabled) == FALSE

(* async_post_auth: "if not self.ctl.config_instance.link_mode_enabled".   *)
link_mode_off(enabled) == ~enabled

(* async_post_auth, up to the response or to the await of the notification *)
(* in async_enable_link_mode_discovery.                                    *)
async_post_auth(rq) ==
    /\ BagIn(rq, reqs) /\ rq.pc = "text" /\ rq.route = "post_auth" /\ rq.body.json
    /\ LET d == rq.body.devicetype
       IN  IF d = NoneS \/ d \in HomeAssistantTypes
           THEN /\ Respond(rq, Response(rq, "error", IF d = NoneS THEN 302 ELSE 901))
                /\ NoStore
                /\ UNCHANGED <<users, link_mode_enabled, link_mode_discovery_key,
                               tasks, secure_strings, linkHist>>
           ELSE IF link_mode_off(link_mode_enabled)
           THEN IF link_mode_discovery_key # None
                THEN /\ Respond(rq, Response(rq, "error", 101))
                     /\ NoStore
                     /\ UNCHANGED <<users, link_mode_enabled, link_mode_discovery_key,
                                    tasks, secure_strings, linkHist>>
                ELSE /\ secure_strings < MaxSecureStrings
                     /\ link_mode_discovery_key' = create_secure_string(secure_strings)
                     /\ secure_strings' = secure_strings + 1
                     /\ reqs' = (reqs (-) SetToBag({rq}))
                                   (+) SetToBag({[rq EXCEPT !.pc = "notify"]})
                     /\ resp' = NoResp
                     /\ NoStore
                     /\ UNCHANGED <<users, link_mode_enabled, tasks>>
                     /\ LinkHistory(FALSE)
           ELSE LET c == async_create_user(users, d, secure_strings)
                IN  /\ c.issued <= MaxSecureStrings
                    /\ BagCardinality(tasks) < MaxTasks
                    /\ users' = c.users
                    /\ needs_save(c.users # users)
                    /\ secure_strings' = c.issued
                    /\ link_mode_enabled' = async_disable_link_mode(link_mode_enabled)
                    /\ tasks' = tasks (+) SetToBag(
                                   {Task("disable_link_mode_discovery", "pairing")})
                    /\ Respond(rq, [Response(rq, "success", 0)
                                      EXCEPT !.data = c.user.username])
                    /\ UNCHANGED link_mode_discovery_key
                    /\ LinkHistory(TRUE)
    /\ cmd' = NoCmd /\ ran' = NoTask
    /\ UNCHANGED <<bridge_config, scenes, groups, entertainment_api, timers,
                   loop_time, deviceVars>>

(* async_enable_link_mode_discovery after the notification was created:   *)
(* the expiry of the token is scheduled and POST /api answers 101.         *)
NotificationCreated(rq) ==
    /\ BagIn(rq, reqs) /\ rq.pc = "notify"
    /\ BagCardinality(timers) < MaxTimers
    /\ timers' = timers (+) SetToBag({Timer("disable_link_mode_discovery", loop_time)})
    /\ Respond(rq, Response(rq, "error", 101))
    /\ cmd' = NoCmd /\ ran' = NoTask /\ NoStore
    /\ UNCHANGED <<configVars, tasks, loop_time, secure_strings, deviceVars,
                   linkHist>>

(* A token check that accepts any token while one is current.              *)
token_matches_AnyToken(token, key) == key # None

(* async_link: the token equals the current, non-null discovery token.     *)
token_matches(token, key) == key # None /\ token = key

(* async_link: GET /link/{token}.  Nothing follows the dismissal of the    *)
(* notification in async_disable_link_mode_discovery but the response.     *)
async_link(token) ==
    LET rq == Request("link", None, token, [json |-> TRUE]) IN
    /\ IF ~token_matches(token, link_mode_discovery_key)
       THEN /\ resp' = Response(rq, "error", 302)
            /\ UNCHANGED <<link_mode_enabled, link_mode_discovery_key, timers,
                           linkHist>>
       ELSE LET e == async_enable_link_mode(link_mode_enabled, timers, loop_time)
            IN  /\ BagCardinality(e.timers) <= MaxTimers
                /\ link_mode_enabled' = e.enabled
                /\ timers' = e.timers
                /\ link_mode_discovery_key' = None
                /\ resp' = Response(rq, "success", 0)
                /\ LinkHistory(FALSE)
    /\ cmd' = NoCmd /\ ran' = NoTask /\ NoStore
    /\ UNCHANGED <<users, bridge_config, scenes, groups, entertainment_api, tasks,
                   reqs, loop_time, secure_strings, deviceVars>>

(* Config.async_set_storage_value(key, subkey, value) on one section.      *)
async_set_storage_value(section, subkey, value) ==
    [k \in DOMAIN section \cup {subkey} |-> IF k = subkey THEN value ELSE section[k]]

(* async_change_config: PUT /api/{username}/config.                        *)
async_change_config(rq) ==
    /\ BagIn(rq, reqs) /\ rq.pc = "text" /\ rq.route = "change_config"
    /\ rq.body.json
    /\ LET b  == rq.body
           e  == IF b.linkbutton = "true"
                 THEN async_enable_link_mode(link_mode_enabled, timers, loop_time)
                 ELSE [enabled |-> link_mode_enabled, timers |-> timers]
           c1 == IF b.linkbutton = "false"
                 THEN async_set_storage_value(bridge_config, "linkbutton", FALSE)
                 ELSE bridge_config
           c2 == IF b.name # NoneS
                 THEN async_set_storage_value(c1, "name", b.name) ELSE c1
       IN  /\ BagCardinality(e.timers) <= MaxTimers
           /\ link_mode_enabled' = e.enabled
           /\ timers' = e.timers
           /\ bridge_config' = c2
           /\ Respond(rq, Response(rq, "success", 0))
    /\ UNCHANGED link_mode_discovery_key
    /\ LinkHistory(FALSE)
    /\ cmd' = NoCmd /\ ran' = NoTask
    /\ needs_save(rq.body.linkbutton = "false" \/ rq.body.name # NoneS)
    /\ UNCHANGED <<users, scenes, groups, entertainment_api, tasks, loop_time,
                   secure_strings, deviceVars>>

(* A call_later callback runs: the auto_disable of link mode creates the   *)
(* task, the auto_disable of a search clears _new_lights.                  *)
TimerFire(t) ==
    /\ BagIn(t, timers)
    /\ timers' = timers (-) SetToBag({t})
    /\ IF t.kind = "new_lights"
       THEN /\ new_lights' = {}
            /\ UNCHANGED tasks
       ELSE /\ BagCardinality(tasks) < MaxTasks
            /\ tasks' = tasks (+) SetToBag({Task(t.kind, "timer")})
            /\ UNCHANGED new_lights
    /\ UNCHANGED <<storeVars, allocated, streamVars>>
    /\ resp' = NoResp /\ cmd' = NoCmd /\ ran' = NoTask
    /\ UNCHANGED <<configVars, reqs, loop_time, secure_strings, deviceVars, linkHist>>

(* devices.force_update_all: every cached device refreshes its state.      *)
force_update_all ==
    LET r(e) == async_update_state(device_cache[e],
                                   lights[device_cache[e].light_id].state,
                                   hass[e], wall_ms, entertainment_api # <<>>)
    IN  /\ device_cache' = [e \in DOMAIN device_cache |-> r(e).dev]
        /\ lights' = [l \in DOMAIN lights |->
                        IF lights[l].entity_id \in DOMAIN device_cache
                        THEN [lights[l] EXCEPT !.state = r(lights[l].entity_id).state]
                        ELSE lights[l]]

(* A created task runs: async_disable_link_mode,                           *)
(* async_disable_link_mode_discovery or force_update_all.                  *)
RunTask(t) ==
    /\ BagIn(t, tasks)
    /\ tasks' = tasks (-) SetToBag({t})
    /\ IF t.kind = "disable_link_mode"
       THEN /\ link_mode_enabled' = async_disable_link_mode(link_mode_enabled)
            /\ UNCHANGED <<link_mode_discovery_key, lights, device_cache>>
       ELSE IF t.kind = "disable_link_mode_discovery"
       THEN /\ link_mode_discovery_key' = None
            /\ UNCHANGED <<link_mode_enabled, lights, device_cache>>
       ELSE /\ force_update_all
            /\ UNCHANGED <<link_mode_enabled, link_mode_discovery_key>>
    /\ LinkHistory(FALSE)
    /\ resp' = NoResp /\ cmd' = NoCmd /\ ran' = t
    /\ needs_save(t.kind = "force_update_all"
                  /\ \E e \in DOMAIN device_cache :
                        refreshes(device_cache[e], wall_ms, entertainment_api # <<>>))
    /\ UNCHANGED <<users, bridge_config, scenes, groups, entertainment_api, timers,
                   reqs, loop_time, secure_strings, hass, wall_ms, last_accept_ms, last_accepted>>

-----------------------------------------------------------------------------
(* apiv1.py: the other handlers that change state.                         *)

MaxItems == 2   \* local items of one type that are stored

(* async_put_light_state once the body is read.                            *)
async_put_light_state(rq) ==
    /\ BagIn(rq, reqs) /\ rq.pc = "text" /\ rq.route = "put_light_state"
    /\ rq.body.json
    /\ PutLightState(rq, reqs (-) SetToBag({rq}))
    /\ ran' = NoTask
    /\ UNCHANGED <<configVars, timers, tasks, loop_time, secure_strings, hass,
                   wall_ms, linkHist>>

(* __async_create_local_item: the first id that is not in use.             *)
first_available_id(local_items) ==
    CHOOSE i \in 1..(Cardinality(local_items) + 1) :
        /\ i \notin local_items
        /\ \A j \in 1..(i - 1) : j \in local_items

(* The body of POST /api/{username}/scenes; group is None when the scene   *)
(* has no "group" key (a LightScene).                                      *)
SceneBody(group) == [json |-> TRUE, group |-> group]

(* async_create_localitem: POST /api/{username}/scenes.                    *)
async_create_localitem(rq) ==
    /\ BagIn(rq, reqs) /\ rq.pc = "text" /\ rq.route = "create_localitem"
    /\ rq.body.json
    /\ Len(scenes) < MaxItems
    /\ scenes' = Append(scenes, Scene(first_available_id(ItemIds(scenes)),
                                      rq.body.group))
    /\ Respond(rq, [Response(rq, "success", 0)
                      EXCEPT !.data = first_available_id(ItemIds(scenes))])
    /\ cmd' = NoCmd /\ ran' = NoTask /\ needs_save(TRUE)
    /\ UNCHANGED <<users, bridge_config, groups, link_mode_enabled,
                   link_mode_discovery_key, entertainment_api, timers, tasks,
                   loop_time, secure_strings, deviceVars, linkHist>>

(* The path of DELETE /api/{username}/{itemtype}/{item_id}.                *)
DeleteItem(itemtype) == [json |-> TRUE, itemtype |-> itemtype]

(* async_delete_storage_value("groups", g): the loop over scenes.copy()    *)
(* from the scenes still to visit, up to the first scene of the group      *)
(* (it is popped and its save is awaited), a KeyError or the end.          *)
RECURSIVE cascade(_, _, _)
cascade(scs, todo, g) ==
    IF todo = <<>> THEN [status |-> "end", scenes |-> scs, todo |-> <<>>]
    ELSE IF Head(todo).group = None
    THEN [status |-> "KeyError", scenes |-> scs, todo |-> <<>>]
    ELSE IF Head(todo).group = g
    THEN [status |-> "save_scene", scenes |-> pop(scs, Head(todo).id),
          todo |-> Tail(todo)]
    ELSE cascade(scs, Tail(todo), g)

(* Config.async_delete_storage_value(key, subkey) up to its next await of  *)
(* async_save_json, its return or its exception; todo is what is left of   *)
(* scenes.copy().  status: "save_scene" and "save" await a save_json,      *)
(* "done" returned, "raised" is an exception.                              *)
async_delete_storage_value(key, subkey, todo) ==
    LET same == [scenes |-> scenes, groups |-> groups, lights |-> lights,
                 todo |-> <<>>, set_storage |-> FALSE, status |-> "done"]
        c    == cascade(scenes, todo, subkey)
    IN  IF key = "groups" /\ c.status = "KeyError"
        THEN [same EXCEPT !.status = "raised"]
        ELSE IF key = "groups" /\ c.status = "save_scene"
        THEN [same EXCEPT !.status = "save_scene", !.scenes = c.scenes,
                          !.todo = c.todo]
        ELSE IF key = "groups" /\ subkey \notin DOMAIN groups
        THEN [same EXCEPT !.status = "raised"]
        ELSE IF key = "groups" /\ groups[subkey].class = "Home Assistant"
        THEN [same EXCEPT !.status = "done", !.set_storage = TRUE,
                          !.groups = [groups EXCEPT ![subkey].enabled = FALSE]]
        ELSE IF key = "groups"
        THEN [same EXCEPT !.status = "save", !.groups = popkey(groups, subkey)]
        ELSE IF key = "lights" /\ subkey \notin DOMAIN lights
        THEN [same EXCEPT !.status = "raised"]
        ELSE IF key = "lights"
        THEN [same EXCEPT !.status = "done", !.set_storage = TRUE,
                          !.lights = [lights EXCEPT ![subkey].enabled = FALSE]]
        ELSE [same EXCEPT !.status = "save", !.scenes = pop(scenes, subkey)]

(* The handler of DELETE goes on with the outcome o of                     *)
(* async_delete_storage_value: it is suspended at a save_json that starts  *)
(* in the executor, or it answers.  rest and js are the other requests and *)
(* the other save_json calls.                                              *)
DeleteOutcome(rq, o, stamped, rest, js) ==
    /\ scenes' = o.scenes /\ groups' = o.groups /\ lights' = o.lights
    /\ saver_task' = IF o.set_storage \/ stamped
                     THEN create_save_task(saver_task) ELSE saver_task
    /\ IF o.status \in {"save", "save_scene"}
       THEN LET rq2 == [rq EXCEPT !.pc = o.status, !.todo = o.todo]
            IN  /\ reqs' = rest (+) SetToBag({rq2})
                /\ jobs' = js (+) SetToBag({Job("request", <<rq2>>)})
                /\ resp' = NoResp
       ELSE /\ reqs' = rest
            /\ jobs' = js
            /\ resp' = IF o.status = "raised"
                       THEN Response(rq, "exception", 500)
                       ELSE Response(rq, "success", 0)

(* async_delete_localitem: DELETE /api/{username}/{itemtype}/{item_id}, up *)
(* to its first await of a save or to its response; no body is read, so    *)
(* check_request and the handler are one step.                             *)
async_delete_localitem(rq) ==
    /\ rq.route = "delete_localitem"
    /\ IF CheckUser(rq.route) /\ rq.username \notin DOMAIN users
       THEN /\ resp' = Response(rq, "error", 1)
            /\ UNCHANGED <<users, scenes, groups, lights, reqs, saver_task, jobs>>
       ELSE /\ users' = IF CheckUser(rq.route)
                        THEN async_get_user(users, rq.username, loop_time)
                        ELSE users
            /\ DeleteOutcome(rq, async_delete_storage_value(
                                    rq.body.itemtype, rq.arg, scenes),
                             CheckUser(rq.route) /\ rq.username \in DOMAIN users,
                             reqs, jobs)
    /\ cmd' = NoCmd /\ ran' = NoTask
    /\ UNCHANGED <<bridge_config, link_mode_enabled, link_mode_discovery_key,
                   entertainment_api, timers, tasks, loop_time, secure_strings,
                   device_cache, hass, wall_ms, last_accept_ms, last_accepted,
                   linkHist, disk, process, new_lights, allocated, streamVars>>

(* A stored group with a "stream" key, and the body of PUT .../groups/{id}. *)
Stream(active, owner, proxymode, proxynode) ==
    [active |-> active, owner |-> owner, proxymode |-> proxymode,
     proxynode |-> proxynode]
GroupBody(active) == [json |-> TRUE, stream_active |-> active]

MaxDaemons == 2   \* openssl subprocesses alive or still to be started

(* EntertainmentAPI.__init__: the session of a group and a user; its       *)
(* async_run task is created and has not run yet.                          *)
EntertainmentAPI(group_id, username) ==
    [group |-> group_id, user |-> username, pc |-> "created"]

(* A start that replaces the session that exists.                          *)
start_entertainment_Replace(api, group_id, username) ==
    <<EntertainmentAPI(group_id, username)>>

(* Config.start_entertainment *)
start_entertainment(api, group_id, username) ==
    IF api = <<>> THEN <<EntertainmentAPI(group_id, username)>> ELSE api

(* Config.stop_entertainment with EntertainmentAPI.stop: the session is    *)
(* interrupted and dropped; its subprocess is killed if async_run has      *)
(* started it, else async_run is still to run.  The caller creates the     *)
(* force_update_all task.                                                  *)
stop_entertainment ==
    /\ entertainment_api' = <<>>
    /\ socket_daemons' = IF entertainment_api # <<>>
                            /\ entertainment_api[1].pc \in {"running", "failed"}
                         THEN socket_daemons - 1 ELSE socket_daemons
    /\ interrupted_runs' = IF entertainment_api # <<>>
                              /\ entertainment_api[1].pc = "created"
                           THEN interrupted_runs + 1 ELSE interrupted_runs

(* EntertainmentAPI.async_run up to its loop: the subprocess is started;   *)
(* live is whether the session is the one Config holds.  The task of an    *)
(* interrupted session starts the subprocess too and then ends.            *)
async_run(live) ==
    /\ socket_daemons < MaxDaemons
    /\ socket_daemons' = socket_daemons + 1
    /\ IF live
       THEN /\ entertainment_api # <<>> /\ entertainment_api[1].pc = "created"
            /\ entertainment_api' = <<[entertainment_api[1] EXCEPT !.pc = "running"]>>
            /\ UNCHANGED interrupted_runs
       ELSE /\ interrupted_runs > 0
            /\ interrupted_runs' = interrupted_runs - 1
            /\ UNCHANGED entertainment_api
    /\ resp' = NoResp /\ cmd' = NoCmd /\ ran' = NoTask
    /\ UNCHANGED <<users, bridge_config, scenes, groups, link_mode_enabled,
                   link_mode_discovery_key, loopVars, linkHist, deviceVars,
                   storeVars, new_lights, allocated, parserVars>>

(* async_update_group: PUT /api/{username}/groups/{group_id} with a        *)
(* "stream" object in the body.                                            *)
async_update_group(rq) ==
    /\ BagIn(rq, reqs) /\ rq.pc = "text" /\ rq.route = "update_group"
    /\ rq.body.json
    /\ IF rq.arg \notin DOMAIN groups
       THEN /\ Respond(rq, Response(rq, "error", 404))
            /\ UNCHANGED <<users, groups, entertainment_api, tasks, daemonVars>>
       ELSE LET st == groups[rq.arg].stream IN
            IF rq.body.stream_active = "true"
            THEN /\ entertainment_api # <<>>
                    \/ socket_daemons + interrupted_runs < MaxDaemons
                 /\ users' = async_get_user(users, rq.username, loop_time)
                 /\ entertainment_api' =
                        start_entertainment(entertainment_api, rq.arg, rq.username)
                 /\ UNCHANGED daemonVars
                 /\ groups' = [groups EXCEPT ![rq.arg].stream =
                        Stream("absent", rq.username,
                               IF st.proxymode = NoneS THEN "auto" ELSE st.proxymode,
                               IF st.proxynode = NoneS THEN "/bridge" ELSE st.proxynode)]
                 /\ Respond(rq, Response(rq, "success", 0))
                 /\ UNCHANGED tasks
            ELSE /\ BagCardinality(tasks) < MaxTasks
                 /\ stop_entertainment
                 /\ tasks' = tasks (+) SetToBag(
                                {Task("force_update_all", "stop_entertainment")})
                 /\ groups' = [groups EXCEPT ![rq.arg].stream.active =
                                                rq.body.stream_active]
                 /\ Respond(rq, Response(rq, "success", 0))
                 /\ UNCHANGED users
    /\ cmd' = NoCmd /\ ran' = NoTask
    /\ saver_task' = IF rq.arg \in DOMAIN groups
                     THEN create_save_task(saver_task) ELSE saver_task
    /\ UNCHANGED <<jobs, disk, process, new_lights, allocated, parserVars>>
    /\ UNCHANGED <<bridge_config, scenes, link_mode_enabled,
                   link_mode_discovery_key, timers, loop_time, secure_strings,
                   deviceVars, linkHist>>

(* async_group_action: PUT /api/{username}/groups/{group_id}/action once   *)
(* the body is read, for a stored local group whose "lights" list is       *)
(* empty, so that no light command is forwarded; an id that is not stored  *)
(* raises in __async_get_group_id.  A group with a "stream" key stops the  *)
(* session.                                                                *)
async_group_action(rq) ==
    /\ BagIn(rq, reqs) /\ rq.pc = "text" /\ rq.route = "group_action"
    /\ rq.body.json
    /\ IF rq.arg \notin DOMAIN groups
       THEN /\ Respond(rq, Response(rq, "exception", 500))
            /\ UNCHANGED <<entertainment_api, tasks, daemonVars>>
       ELSE /\ BagCardinality(tasks) < MaxTasks
            /\ stop_entertainment
            /\ tasks' = tasks (+) SetToBag(
                           {Task("force_update_all", "stop_entertainment")})
            /\ Respond(rq, Response(rq, "success", 0))
    /\ cmd' = NoCmd /\ ran' = NoTask
    /\ UNCHANGED <<users, bridge_config, scenes, groups, link_mode_enabled,
                   link_mode_discovery_key, timers, loop_time, secure_strings,
                   deviceVars, linkHist, storeVars, new_lights, allocated,
                   parserVars>>

-----------------------------------------------------------------------------
(* The JSON store: the delayed commit, utils.save_json in the executor,    *)
(* the shutdown, a crash and the next start of the process.                *)

(* Config._commit_config: the sleep of the saver task is over and          *)
(* async_save_json hands save_json to the executor.                        *)
SleepEnds ==
    /\ saver_task = "sleeping"
    /\ process \in {"running", "stopping"}
    /\ saver_task' = "writing"
    /\ jobs' = jobs (+) SetToBag({Job("saver", <<>>)})
    /\ resp' = NoResp /\ cmd' = NoCmd /\ ran' = NoTask
    /\ UNCHANGED <<configVars, loopVars, linkHist, deviceVars, disk, process,
                   new_lights, allocated, streamVars>>

(* save_json, first step: the live file, if there is one, is moved to the  *)
(* .backup path by os.replace.                                             *)
SaveReplace(j) ==
    /\ BagIn(j, jobs) /\ j.pc = "start"
    /\ disk' = IF disk.live.exists
               THEN [live |-> NoFile, backup |-> disk.live] ELSE disk
    /\ jobs' = (jobs (-) SetToBag({j})) (+) SetToBag({[j EXCEPT !.pc = "replaced"]})
    /\ resp' = NoResp /\ cmd' = NoCmd /\ ran' = NoTask
    /\ UNCHANGED <<configVars, loopVars, linkHist, deviceVars, saver_task,
                   process, new_lights, allocated, streamVars>>

(* save_json, second step: json.dumps of the document as it is in memory   *)
(* at this moment (taken as one step), then open(filename, "w").           *)
SaveOpen(j) ==
    /\ BagIn(j, jobs) /\ j.pc = "replaced"
    /\ disk' = [disk EXCEPT !.live = EmptyFile]
    /\ jobs' = (jobs (-) SetToBag({j}))
                  (+) SetToBag({[j EXCEPT !.pc = "opened",
                                          !.json_data = <<Document>>]})
    /\ resp' = NoResp /\ cmd' = NoCmd /\ ran' = NoTask
    /\ UNCHANGED <<configVars, loopVars, linkHist, deviceVars, saver_task,
                   process, new_lights, allocated, streamVars>>

(* save_json, last step: the text is written and the file is closed; the   *)
(* await of async_save_json returns to the saver task, to async_stop or to *)
(* the handler of DELETE, which goes on.                                   *)
SaveWrite(j) ==
    /\ BagIn(j, jobs) /\ j.pc = "opened"
    /\ disk' = [disk EXCEPT !.live = File(j.json_data[1])]
    /\ IF j.by = "request" /\ process \in {"running", "stopping"}
       THEN LET rq == j.rq[1]
                o  == IF rq.pc = "save"
                      THEN [scenes |-> scenes, groups |-> groups,
                            lights |-> lights, todo |-> <<>>,
                            set_storage |-> FALSE, status |-> "done"]
                      ELSE async_delete_storage_value("groups", rq.arg, rq.todo)
            IN  /\ DeleteOutcome(rq, o, FALSE, reqs (-) SetToBag({rq}),
                                 jobs (-) SetToBag({j}))
                /\ UNCHANGED process
       ELSE /\ jobs' = jobs (-) SetToBag({j})
            /\ saver_task' = IF j.by = "saver" THEN "done" ELSE saver_task
            /\ process' = IF j.by = "stop" THEN "stopped" ELSE process
            /\ resp' = NoResp
            /\ UNCHANGED <<scenes, groups, lights, reqs>>
    /\ cmd' = NoCmd /\ ran' = NoTask
    /\ UNCHANGED <<users, bridge_config, link_mode_enabled,
                   link_mode_discovery_key, entertainment_api, timers, tasks,
                   loop_time, secure_strings, linkHist, device_cache, hass,
                   wall_ms, last_accept_ms, last_accepted, new_lights, allocated,
                   streamVars>>

(* Config.async_stop: stop_entertainment, then, only if the saver task is  *)
(* pending, it is cancelled and one commit is awaited.  The cancellation    *)
(* of a task that awaits the executor does not stop the thread.            *)
async_stop ==
    /\ process = "running"
    /\ BagCardinality(tasks) < MaxTasks
    /\ stop_entertainment
    /\ tasks' = tasks (+) SetToBag({Task("force_update_all", "stop_entertainment")})
    /\ IF saver_task \in {"sleeping", "writing"}
       THEN /\ saver_task' = "cancelled"
            /\ jobs' = LET orphan(j) == IF j.by = "saver"
                                        THEN [j EXCEPT !.by = "cancelled"] ELSE j
                           S == BagToSet(jobs)
                       IN  SetToBag({orphan(j) : j \in S})
                              (+) SetToBag({Job("stop", <<>>)})
            /\ process' = "stopping"
       ELSE /\ UNCHANGED <<saver_task, jobs>>
            /\ process' = "stopped"
    /\ resp' = NoResp /\ cmd' = NoCmd /\ ran' = NoTask
    /\ UNCHANGED <<users, bridge_config, scenes, groups, link_mode_enabled,
                   link_mode_discovery_key, timers, reqs, loop_time,
                   secure_strings, linkHist, deviceVars, disk, new_lights,
                   allocated, parserVars>>

(* The process dies (power loss, kill): its tasks, requests and executor   *)
(* threads are gone, the files stay as they are.                           *)
Crash ==
    /\ process \in {"running", "stopping"}
    /\ process' = "crashed"
    /\ jobs' = EmptyBag /\ reqs' = EmptyBag /\ tasks' = EmptyBag
    /\ timers' = EmptyBag /\ saver_task' = "none"
    /\ resp' = NoResp /\ cmd' = NoCmd /\ ran' = NoTask
    /\ UNCHANGED <<configVars, loop_time, secure_strings, linkHist, deviceVars,
                   disk, new_lights, allocated, streamVars>>

(* utils.load_json: {} when the file is missing or is not whole JSON.      *)
load_json(file) ==
    IF file.exists /\ file.complete THEN file.doc[1] ELSE EmptyDocument

(* The next start of the process after a shutdown: Config.__init__ loads   *)
(* the live file; the threads of the last process have ended.              *)
Restart ==
    /\ process = "stopped"
    /\ jobs = EmptyBag
    /\ LET doc == load_json(disk.live)
       IN  /\ users' = doc.users /\ bridge_config' = doc.bridge_config
           /\ scenes' = doc.scenes /\ groups' = doc.groups
           /\ lights' = doc.lights
    /\ link_mode_enabled' = FALSE /\ link_mode_discovery_key' = None
    /\ entertainment_api' = <<>>
    /\ timers' = EmptyBag /\ tasks' = EmptyBag /\ reqs' = EmptyBag
    /\ device_cache' = <<>> /\ new_lights' = {}
    /\ saver_task' = "none" /\ process' = "running"
    /\ resp' = NoResp /\ cmd' = NoCmd /\ ran' = NoTask
    /\ UNCHANGED <<loop_time, secure_strings, linkHist, hass, wall_ms,
                   last_accept_ms, last_accepted, jobs, disk, allocated,
                   streamVars>>

-----------------------------------------------------------------------------
(* Light ids, the listing of the lights and the search.                    *)

NEW_LIGHTS_SECONDS == 60

Max(S) == CHOOSE x \in S : \A y \in S : y <= x

(* The entity's light_id is noted the first time one is returned for it.   *)
remember(alloc, entity_id, light_id) ==
    IF entity_id \in DOMAIN alloc THEN alloc
    ELSE [e \in DOMAIN alloc \cup {entity_id} |->
            IF e = entity_id THEN light_id ELSE alloc[e]]

(* A lookup that never finds the entity's record.                          *)
async_entity_id_to_light_id_NoLookup(ls, entity_id) ==
    LET next_light_id == IF DOMAIN ls = {} THEN 1 ELSE Max(DOMAIN ls) + 1
    IN  [lights |-> async_set_storage_value(ls, next_light_id,
                       [entity_id |-> entity_id, enabled |-> TRUE,
                        throttle |-> DEFAULT_THROTTLE_MS]),
         created |-> TRUE, light_id |-> next_light_id]

(* Config.async_entity_id_to_light_id on the dict ls: the id of the first  *)
(* record of the entity, or a new record under max + 1; the new record has *)
(* no "state" key.                                                         *)
async_entity_id_to_light_id(ls, entity_id) ==
    IF \E l \in DOMAIN ls : ls[l].entity_id = entity_id
    THEN [lights |-> ls, created |-> FALSE,
          light_id |-> CHOOSE l \in DOMAIN ls :
                          /\ ls[l].entity_id = entity_id
                          /\ \A k \in DOMAIN ls :
                                ls[k].entity_id = entity_id => l <= k]
    ELSE LET next_light_id == IF DOMAIN ls = {} THEN 1 ELSE Max(DOMAIN ls) + 1
         IN  [lights |-> async_set_storage_value(ls, next_light_id,
                            [entity_id |-> entity_id, enabled |-> TRUE,
                             throttle |-> DEFAULT_THROTTLE_MS]),
              created |-> TRUE, light_id |-> next_light_id]

(* devices.async_get_device on st = [lights, cache, allocated, saved,      *)
(* raised, ...]: the cached device, or the id is looked up (or allocated)  *)
(* and the device is built from the record, refreshed and cached.          *)
(* EntityState.from_config raises on a record without "state".             *)
get_device(st, e) ==
    IF e \in DOMAIN st.cache THEN st
    ELSE LET a   == async_entity_id_to_light_id(st.lights, e)
             l   == a.light_id
             st1 == [st EXCEPT !.lights = a.lights,
                               !.allocated = remember(@, e, l),
                               !.saved = @ \/ a.created]
         IN  IF "state" \notin DOMAIN a.lights[l]
             THEN [st1 EXCEPT !.raised = TRUE]
             ELSE LET new == NewDevice(
                                DeviceClass(hass[e].attributes.supported_color_modes),
                                l, a.lights[l], wall_ms)
                      r   == async_update_state(new, from_config(a.lights[l].state),
                                                hass[e], wall_ms,
                                                entertainment_api # <<>>)
                  IN  [st1 EXCEPT
                         !.lights = [a.lights EXCEPT ![l].state = r.state],
                         !.cache = [k \in DOMAIN st.cache \cup {e} |->
                                      IF k = e THEN r.dev ELSE st.cache[k]],
                         !.saved = @ \/ refreshes(new, wall_ms,
                                                  entertainment_api # <<>>)]

(* __async_get_all_lights over get_entities() in the given order.          *)
RECURSIVE get_all_lights(_, _)
get_all_lights(st, order) ==
    IF order = <<>> \/ st.raised THEN st
    ELSE LET e == Head(order)
             g == get_device(st, e)
         IN  IF g.raised THEN g
             ELSE get_all_lights(
                     [g EXCEPT !.result = IF g.cache[e].enabled
                                          THEN @ \cup {g.cache[e].light_id}
                                          ELSE @],
                     Tail(order))

(* The orders in which the backend may list the entities.                  *)
Orders(S) ==
    {o \in [1..Cardinality(S) -> S] :
        \A i, j \in 1..Cardinality(S) : i # j => o[i] # o[j]}

Walk == [lights |-> lights, cache |-> device_cache, allocated |-> allocated,
         saved |-> FALSE, raised |-> FALSE, result |-> {},
         new_lights |-> new_lights]

(* async_get_lights: GET /api/{username}/lights; no body is read, so       *)
(* check_request and the handler are one step.                             *)
async_get_lights(rq, order) ==
    /\ rq.route = "get_lights"
    /\ IF CheckUser(rq.route) /\ rq.username \notin DOMAIN users
       THEN /\ resp' = Response(rq, "error", 1)
            /\ UNCHANGED <<users, lights, device_cache, allocated, saver_task>>
       ELSE LET st == get_all_lights(Walk, order)
            IN  /\ users' = async_get_user(users, rq.username, loop_time)
                /\ lights' = st.lights
                /\ device_cache' = st.cache
                /\ allocated' = st.allocated
                /\ saver_task' = create_save_task(saver_task)
                /\ resp' = IF st.raised
                           THEN Response(rq, "exception", 500)
                           ELSE Response(rq, "success", 0) @@ [lights |-> st.result]
    /\ cmd' = NoCmd /\ ran' = NoTask
    /\ UNCHANGED <<bridge_config, scenes, groups, link_mode_enabled,
                   link_mode_discovery_key, entertainment_api, loopVars,
                   linkHist, hass, wall_ms, last_accept_ms, last_accepted,
                   jobs, disk, process, new_lights, streamVars>>

(* The backend's area registry in its order, and the light entities of     *)
(* each area as async_get_area_entities returns them.                      *)
AreaIds == <<"kitchen", "hall">>
AreaEntities == [kitchen |-> <<"light.a">>, hall |-> <<>>]

(* The default config that async_area_id_to_group_id stores for an area.   *)
AreaGroup(area_id) ==
    [area_id |-> area_id, enabled |-> TRUE, name |-> "", class |-> "Other",
     type |-> "Room"]

(* Config.async_area_id_to_group_id on the dict gs: the key of the group   *)
(* of the area, or a new default config under max + 1.                     *)
async_area_id_to_group_id(gs, area_id) ==
    LET found == {g \in DOMAIN gs : /\ "area_id" \in DOMAIN gs[g]
                                    /\ gs[g].area_id = area_id}
    IN  IF found # {}
        THEN [groups |-> gs, created |-> FALSE,
              group_id |-> CHOOSE g \in found : \A k \in found : g <= k]
        ELSE LET next_group_id == IF DOMAIN gs = {} THEN 1
                                  ELSE Max(DOMAIN gs) + 1
             IN  [groups |-> async_set_storage_value(gs, next_group_id,
                                                     AreaGroup(area_id)),
                  created |-> TRUE, group_id |-> next_group_id]

(* __async_get_all_groups, the loop over the entities of one area: the     *)
(* light id is looked up (or allocated) and the device is fetched.         *)
RECURSIVE area_lights(_, _)
area_lights(st, entities) ==
    IF entities = <<>> \/ st.raised THEN st
    ELSE LET a   == async_entity_id_to_light_id(st.lights, Head(entities))
             st1 == [st EXCEPT !.lights = a.lights,
                               !.allocated = remember(@, Head(entities), a.light_id),
                               !.saved = @ \/ a.created]
             d   == get_device(st1, Head(entities))
         IN  area_lights([d EXCEPT !.group_lights =
                                     IF d.raised THEN @ ELSE @ \cup {a.light_id}],
                         Tail(entities))

(* __async_get_all_groups: the group of an area is in the result unless    *)
(* it has no lights.                                                       *)
group_listed(st, group_id) ==
    [st EXCEPT !.result = IF st.raised \/ st.group_lights = {} THEN @
                          ELSE @ \cup {group_id}]

(* __async_get_all_groups, the loop over the areas: a disabled group is    *)
(* skipped and a group without lights is not returned.                     *)
RECURSIVE area_groups(_, _)
area_groups(st, areas) ==
    IF areas = <<>> \/ st.raised THEN st
    ELSE LET a   == async_area_id_to_group_id(st.groups, Head(areas))
             st1 == [st EXCEPT !.groups = a.groups, !.saved = @ \/ a.created,
                               !.group_lights = {}]
         IN  IF ~a.groups[a.group_id].enabled
             THEN area_groups(st1, Tail(areas))
             ELSE area_groups(group_listed(area_lights(st1, AreaEntities[Head(areas)]),
                                           a.group_id),
                              Tail(areas))

(* __async_get_all_groups: the local groups first, then the areas.         *)
get_all_groups ==
    area_groups([Walk EXCEPT !.result = {g \in DOMAIN groups :
                                           "area_id" \notin DOMAIN groups[g]}]
                   @@ [groups |-> groups, group_lights |-> {}],
                AreaIds)

(* async_get_groups: GET /api/{username}/groups; no body is read, so       *)
(* check_request and the handler are one step.                             *)
async_get_groups(rq) ==
    /\ rq.route = "get_groups"
    /\ IF CheckUser(rq.route) /\ rq.username \notin DOMAIN users
       THEN /\ resp' = Response(rq, "error", 1)
            /\ UNCHANGED <<users, groups, lights, device_cache, allocated,
                           saver_task>>
       ELSE LET st == get_all_groups
            IN  /\ users' = async_get_user(users, rq.username, loop_time)
                /\ groups' = st.groups
                /\ lights' = st.lights
                /\ device_cache' = st.cache
                /\ allocated' = st.allocated
                /\ saver_task' = create_save_task(saver_task)
                /\ resp' = IF st.raised
                           THEN Response(rq, "exception", 500)
                           ELSE Response(rq, "success", 0) @@ [groups |-> st.result]
    /\ cmd' = NoCmd /\ ran' = NoTask
    /\ UNCHANGED <<bridge_config, scenes, link_mode_enabled,
                   link_mode_discovery_key, entertainment_api, loopVars,
                   linkHist, hass, wall_ms, last_accept_ms, last_accepted,
                   jobs, disk, process, new_lights, streamVars>>

(* Config.bridge_name *)
bridge_name ==
    IF "name" \in DOMAIN bridge_config THEN bridge_config["name"]
    ELSE "Hass Emulated Hue"

(* __async_whitelist_to_bridge_config: the users without their username    *)
(* and clientkey.                                                          *)
whitelist_to_bridge_config(us) ==
    [u \in DOMAIN us |->
        [name |-> us[u].name, last_use_date |-> us[u].last_use_date]]

(* The username that the route /api/{username:[^/]+/{0,1}|}config{tail:.*} *)
(* binds.  "config" follows the group directly, so for /api/u/config the   *)
(* group takes the slash too, and only /api/uconfig binds u itself;        *)
(* /api/config binds the empty string, which is falsy like None.  Strings  *)
(* are numbers here: u followed by "/" is the number -(10+u), which no     *)
(* stored username is.                                                     *)
match_username(u, slash) ==
    IF u = None THEN None ELSE IF slash THEN 0 - 10 - u ELSE u

(* A test that takes every request for one of a stored user.               *)
valid_user_Always(us, username) == TRUE

(* valid_user of async_get_bridge_config: the path has a username and      *)
(* async_get_user finds it; None is a path without username.               *)
valid_user(us, username) == username # None /\ username \in DOMAIN us

(* __async_get_bridge_config: the basic details (the definitions file and  *)
(* the addresses of the host are fixed for the process), and with          *)
(* full_details the link button and the whitelist.                         *)
get_bridge_config(us, full_details) ==
    IF full_details
    THEN [name |-> bridge_name, mac |-> "mac", bridgeid |-> "bridgeid",
          linkbutton |-> link_mode_enabled,
          whitelist |-> whitelist_to_bridge_config(us)]
    ELSE [name |-> bridge_name, mac |-> "mac", bridgeid |-> "bridgeid"]

(* async_get_bridge_config: GET /api/config and GET /api/{username}/config *)
(* (check_user=False); no body is read, so it is one step.  async_get_user *)
(* stamps the user it finds.                                               *)
async_get_bridge_config(rq) ==
    /\ rq.route = "get_bridge_config"
    /\ LET us == IF rq.username = None THEN users
                 ELSE async_get_user(users, rq.username, loop_time)
       IN  /\ users' = us
           /\ saver_task' = IF valid_user(users, rq.username)
                            THEN create_save_task(saver_task) ELSE saver_task
           /\ resp' = Response(rq, "success", 0)
                        @@ [config |-> get_bridge_config(
                                          us, valid_user(users, rq.username))]
    /\ cmd' = NoCmd /\ ran' = NoTask
    /\ UNCHANGED <<bridge_config, scenes, groups, link_mode_enabled,
                   link_mode_discovery_key, entertainment_api, loopVars,
                   linkHist, deviceVars, jobs, disk, process, new_lights,
                   allocated, streamVars>>

(* async_get_light: GET /api/{username}/lights/{light_id}; no body is      *)
(* read, so check_request and the handler are one step.                    *)
(* async_entity_id_from_light_id raises for an id without a record and for *)
(* a record whose entity the backend does not have.                        *)
async_get_light(rq) ==
    /\ rq.route = "get_light"
    /\ IF CheckUser(rq.route) /\ rq.username \notin DOMAIN users
       THEN /\ resp' = Response(rq, "error", 1)
            /\ UNCHANGED <<users, lights, device_cache, allocated, saver_task>>
       ELSE /\ users' = async_get_user(users, rq.username, loop_time)
            /\ saver_task' = create_save_task(saver_task)
            /\ IF rq.arg \notin DOMAIN lights
                  \/ lights[rq.arg].entity_id \notin DOMAIN hass
               THEN /\ resp' = Response(rq, "exception", 500)
                    /\ UNCHANGED <<lights, device_cache, allocated>>
               ELSE LET st == get_device(Walk, lights[rq.arg].entity_id)
                    IN  /\ lights' = st.lights
                        /\ device_cache' = st.cache
                        /\ allocated' = st.allocated
                        /\ resp' =
                             IF st.raised
                             THEN Response(rq, "exception", 500)
                             ELSE IF IsRGB(st.cache[lights[rq.arg].entity_id].kind)
                             THEN Response(rq, "success", 0)
                                  @@ [hs |-> entity_to_hue_hs(
                                        dev_hue_sat(st.lights[rq.arg].state))]
                             ELSE Response(rq, "success", 0)
    /\ cmd' = NoCmd /\ ran' = NoTask
    /\ UNCHANGED <<bridge_config, scenes, groups, link_mode_enabled,
                   link_mode_discovery_key, entertainment_api, loopVars,
                   linkHist, hass, wall_ms, last_accept_ms, last_accepted,
                   jobs, disk, process, new_lights, streamVars>>

(* The loop of async_search_new_lights over get_entities(): the id of      *)
(* each entity is looked up (or allocated) and a disabled record is        *)
(* enabled and shown in _new_lights.                                       *)
RECURSIVE search_lights(_, _)
search_lights(st, order) ==
    IF order = <<>> \/ st.raised THEN st
    ELSE LET e   == Head(order)
             a   == async_entity_id_to_light_id(st.lights, e)
             l   == a.light_id
             st1 == [st EXCEPT !.lights = a.lights,
                               !.allocated = remember(@, e, l),
                               !.saved = @ \/ a.created]
         IN  IF a.lights[l].enabled THEN search_lights(st1, Tail(order))
             ELSE LET g == get_device([st1 EXCEPT !.lights[l].enabled = TRUE,
                                                  !.saved = TRUE], e)
                  IN  search_lights(
                         [g EXCEPT !.new_lights = IF g.raised THEN @
                                                  ELSE @ \cup {l}],
                         Tail(order))

(* async_search_new_lights: POST /api/{username}/lights once the body is   *)
(* read.                                                                   *)
async_search_new_lights(rq, order) ==
    /\ BagIn(rq, reqs) /\ rq.pc = "text" /\ rq.route = "search_new_lights"
    /\ rq.body.json
    /\ BagCardinality(timers) < MaxTimers
    /\ timers' = timers (+) SetToBag({[kind |-> "new_lights",
                                       due |-> loop_time + NEW_LIGHTS_SECONDS]})
    /\ LET st == search_lights(Walk, order)
           disabled(g) == "enabled" \in DOMAIN groups[g] /\ ~groups[g].enabled
       IN  /\ lights' = st.lights
           /\ device_cache' = st.cache
           /\ allocated' = st.allocated
           /\ new_lights' = st.new_lights
           /\ groups' = IF st.raised THEN groups
                        ELSE [g \in DOMAIN groups |->
                                IF disabled(g)
                                THEN [groups[g] EXCEPT !.enabled = TRUE]
                                ELSE groups[g]]
           /\ saver_task' = IF st.saved \/ (~st.raised /\ \E g \in DOMAIN groups :
                                                            disabled(g))
                            THEN create_save_task(saver_task) ELSE saver_task
           /\ Respond(rq, IF st.raised THEN Response(rq, "exception", 500)
                          ELSE Response(rq, "success", 0))
    /\ cmd' = NoCmd /\ ran' = NoTask
    /\ UNCHANGED <<users, bridge_config, scenes, link_mode_enabled,
                   link_mode_discovery_key, entertainment_api, tasks, loop_time,
                   secure_strings, linkHist, hass, wall_ms, last_accept_ms,
                   last_accepted, jobs, disk, process, streamVars>>

(* The entities the backend may have, and one that appears in it.          *)
StoreEntities == {"light.a", "light.b", "light.c"}

EntityAdded(e) ==
    /\ e \in StoreEntities \ DOMAIN hass
    /\ hass' = [k \in DOMAIN hass \cup {e} |->
                  IF k = e THEN HassDict(HASS_STATE_ON, 75, None, {"brightness"})
                  ELSE hass[k]]
    /\ resp' = NoResp /\ cmd' = NoCmd /\ ran' = NoTask
    /\ UNCHANGED <<configVars, loopVars, linkHist, lights, device_cache, wall_ms,
                   last_accept_ms, last_accepted, storeVars, new_lights, allocated,
                   streamVars>>

-----------------------------------------------------------------------------
(* The v1 API with abstract time.                                          *)

BadUsernames == {0}     \* keys that were never handed out
(* The tokens of GET /link: one never issued, the current one, dead ones.  *)
Tokens      == {0} \cup ({link_mode_discovery_key} \ {None}) \cup dead_tokens
Devicetypes == {"app#a", "app#b"}

PostBodies ==
    {InvalidJson, PostBody(NoneS), PostBody("home-assistant#x"), PostBody("app#b")}

ConfigBodies == {ConfigBody("true", NoneS), ConfigBody("false", NoneS)}

(* Pairing: the well-formed POST /api and the PUT .../config of the users. *)
Requests ==
    {Request("post_auth", None, None, PostBody(d)) : d \in Devicetypes}
    \cup {Request("change_config", u, None, b) : u \in DOMAIN users, b \in ConfigBodies}

Init ==
    /\ InitConfig
    /\ users = (1 :> [User(1, "app#a") EXCEPT !.last_use_date = 0])
    /\ secure_strings = 1
    /\ groups = <<>>
    /\ lights = <<>> /\ hass = <<>>
    /\ InitDisk

Next ==
    \/ \E rq \in Requests : Receive(rq)
    \/ \E rq \in BagToSet(reqs) : async_post_auth(rq)
    \/ \E rq \in BagToSet(reqs) : NotificationCreated(rq)
    \/ \E token \in Tokens : async_link(token)
    \/ \E rq \in BagToSet(reqs) : async_change_config(rq)
    \/ \E t \in BagToSet(timers) : TimerFire(t)
    \/ \E t \in BagToSet(tasks) : RunTask(t)

Spec == Init /\ [][Next]_vars

-----------------------------------------------------------------------------
(* Validation and authentication: every route that changes state, with    *)
(* usernames that are stored and that are not, and bodies of every shape.  *)

MaxPending == 1   \* requests in flight at the same time

UnknownRoutes == {"unknown_PUT", "unknown_POST", "unknown_DELETE"}
Usernames     == BadUsernames \cup DOMAIN users

RequestsAuth ==
    {Request("post_auth", None, None, b) : b \in PostBodies}
    \cup {Request("change_config", u, None, b) :
            u \in Usernames, b \in {ConfigBody("true", NoneS), InvalidJson}}
    \cup {Request("put_light_state", u, 1, Body("true", 10, None, None)) :
            u \in Usernames}
    \cup {Request("create_localitem", u, None, SceneBody(None)) : u \in Usernames}
    \cup {Request("update_group", u, 1, GroupBody(a)) :
            u \in Usernames, a \in {"true", "false"}}
    \cup {Request(r, u, None, [json |-> TRUE]) : r \in UnknownRoutes, u \in Usernames}

DeletesAuth ==
    {Request("delete_localitem", u, 1, DeleteItem("scenes")) : u \in BadUsernames}

InitAuth ==
    /\ InitConfig
    /\ users = (1 :> [User(1, "app#a") EXCEPT !.last_use_date = 0])
    /\ secure_strings = 1
    /\ lights = (1 :> [entity_id |-> "light.a", enabled |-> TRUE,
                       throttle |-> DEFAULT_THROTTLE_MS,
                       state |-> EntityState(FALSE, None)])
    /\ hass = [e \in Entities |-> HassDict(HASS_STATE_ON, 75, None, {"brightness"})]
    /\ groups = (1 :> [stream |-> Stream("absent", None, NoneS, NoneS)])
    /\ InitDisk

NextAuth ==
    \/ \E rq \in RequestsAuth : BagCardinality(reqs) < MaxPending /\ Receive(rq)
    \/ \E rq \in BagToSet(reqs) : InvalidBody(rq)
    \/ \E rq \in BagToSet(reqs) : async_unknown_request(rq)
    \/ \E rq \in BagToSet(reqs) : async_post_auth(rq)
    \/ \E rq \in BagToSet(reqs) : NotificationCreated(rq)
    \/ \E rq \in BagToSet(reqs) : async_change_config(rq)
    \/ \E rq \in BagToSet(reqs) : async_put_light_state(rq)
    \/ \E rq \in BagToSet(reqs) : CallReturns(rq)
    \/ \E rq \in BagToSet(reqs) : async_create_localitem(rq)
    \/ \E rq \in DeletesAuth : async_delete_localitem(rq)
    \/ \E rq \in BagToSet(reqs) : async_update_group(rq)
    \/ \E t \in BagToSet(timers) : TimerFire(t)
    \/ \E t \in BagToSet(tasks) : RunTask(t)

SpecAuth == InitAuth /\ [][NextAuth]_vars

-----------------------------------------------------------------------------
(* The link-mode state machine with the loop's clock.                      *)

MaxLoopTime == 600   \* the clock stops here
TickSeconds == 150   \* the longest step of the clock

(* A call_later callback runs when it is due.                              *)
TimerDue(t) == t.due <= loop_time /\ TimerFire(t)

(* The clock advances, but not past a callback's due time or a ready task. *)
Tick ==
    /\ loop_time < MaxLoopTime
    /\ tasks = EmptyBag
    /\ \A t \in BagToSet(timers) : t.due > loop_time
    /\ \E next \in {loop_time + TickSeconds} \cup {t.due : t \in BagToSet(timers)} :
          /\ next <= loop_time + TickSeconds
          /\ \A t \in BagToSet(timers) : t.due >= next
          /\ loop_time' = next
    /\ resp' = NoResp /\ cmd' = NoCmd /\ ran' = NoTask /\ NoStore
    /\ UNCHANGED <<configVars, timers, tasks, reqs, secure_strings, deviceVars,
                   linkHist>>

RequestsTimed ==
    {Request("post_auth", None, None, PostBody("app#a"))}
    \cup {Request("change_config", u, None, ConfigBody("true", NoneS)) :
            u \in DOMAIN users}

NextTimed ==
    \/ \E rq \in RequestsTimed : Receive(rq)
    \/ \E rq \in BagToSet(reqs) : async_post_auth(rq)
    \/ \E rq \in BagToSet(reqs) : NotificationCreated(rq)
    \/ \E token \in Tokens : async_link(token)
    \/ \E rq \in BagToSet(reqs) : async_change_config(rq)
    \/ \E t \in BagToSet(timers) : TimerDue(t)
    \/ \E t \in BagToSet(tasks) : RunTask(t)
    \/ Tick

SpecTimed == Init /\ [][NextTimed]_vars

-----------------------------------------------------------------------------
(* Concurrent commands on one light: two PUT .../lights/1/state requests   *)
(* of a stored user may be in flight; each is suspended at the read of its *)
(* body and at its backend call, and the calls return in any order.        *)

CommandBodies ==
    {Body("absent", bri, None, None) : bri \in {10, 74}}
    \cup {Body("false", None, None, None)}

InitConcurrent ==
    /\ InitConfig
    /\ users = (1 :> [User(1, "app#a") EXCEPT !.last_use_date = 0])
    /\ secure_strings = 1
    /\ groups = <<>>
    /\ lights = (1 :> [entity_id |-> "light.a", enabled |-> TRUE,
                       throttle |-> DEFAULT_THROTTLE_MS,
                       state |-> EntityState(FALSE, None)])
    /\ hass = [e \in Entities |-> HassDict(HASS_STATE_ON, 75, None, {"brightness"})]
    /\ InitDisk

NextConcurrent ==
    \/ \E body \in CommandBodies : Receive(Request("put_light_state", 1, 1, body))
    \/ \E rq \in BagToSet(reqs) : async_put_light_state(rq)
    \/ \E rq \in BagToSet(reqs) : CallReturns(rq)

SpecConcurrent == InitConcurrent /\ [][NextConcurrent]_vars

-----------------------------------------------------------------------------
(* The JSON store over the life of the process and the next one: lights   *)
(* appear in the backend, they are listed and get their ids, the delayed   *)
(* commit runs, the process dies, or it is shut down and starts again from *)
(* the live file.                                                          *)

BridgeNames == {"a", "b"}

RequestsStore ==
    {Request("change_config", 1, None, ConfigBody(NoneS, n)) : n \in BridgeNames}

GetLights == Request("get_lights", 1, None, [json |-> TRUE])

StoredLight(entity_id) ==
    [entity_id |-> entity_id, enabled |-> TRUE, throttle |-> DEFAULT_THROTTLE_MS,
     state |-> EntityState(FALSE, None)]

InitStore ==
    /\ InitConfig
    /\ users = (1 :> [User(1, "app#a") EXCEPT !.last_use_date = 0])
    /\ secure_strings = 1
    /\ groups = <<>>
    /\ lights = (1 :> StoredLight("light.a"))
    /\ hass = [e \in Entities |-> HassDict(HASS_STATE_ON, 75, None, {"brightness"})]
    /\ InitDisk

NextStore ==
    \/ \E e \in StoreEntities : process = "running" /\ EntityAdded(e)
    \/ \E order \in Orders(DOMAIN hass) :
          process = "running" /\ async_get_lights(GetLights, order)
    \/ SleepEnds
    \/ \E j \in BagToSet(jobs) : SaveReplace(j)
    \/ \E j \in BagToSet(jobs) : SaveOpen(j)
    \/ \E j \in BagToSet(jobs) : SaveWrite(j)
    \/ async_stop
    \/ Crash
    \/ Restart
    \/ \E t \in BagToSet(tasks) : process \in {"running", "stopping"} /\ RunTask(t)

SpecStore == InitStore /\ [][NextStore]_vars

-----------------------------------------------------------------------------
(* The delayed commit while the process keeps running and the name of the  *)
(* bridge is changed.  The loop runs a                                     *)
(* handler whose body was read and wakes the saver task when its sleep is  *)
(* over, and the executor runs save_json to its end: these steps are       *)
(* taken if they stay possible.  Requests may stop arriving.               *)

NextCommit ==
    \/ \E rq \in RequestsStore : reqs = EmptyBag /\ Receive(rq)
    \/ \E rq \in BagToSet(reqs) : async_change_config(rq)
    \/ SleepEnds
    \/ \E j \in BagToSet(jobs) : SaveReplace(j)
    \/ \E j \in BagToSet(jobs) : SaveOpen(j)
    \/ \E j \in BagToSet(jobs) : SaveWrite(j)

SpecCommit ==
    /\ InitStore /\ [][NextCommit]_vars
    /\ WF_vars(\E rq \in BagToSet(reqs) : async_change_config(rq))
    /\ WF_vars(SleepEnds)
    /\ WF_vars(\E j \in BagToSet(jobs) : SaveReplace(j))
    /\ WF_vars(\E j \in BagToSet(jobs) : SaveOpen(j))
    /\ WF_vars(\E j \in BagToSet(jobs) : SaveWrite(j))

-----------------------------------------------------------------------------
(* Lights: they appear in the backend, they are listed, searched and       *)
(* deleted by a stored user.                                               *)

Group(class) ==
    [class |-> class, enabled |-> TRUE,
     stream |-> Stream("absent", None, NoneS, NoneS)]

SearchLights == Request("search_new_lights", 1, None, [json |-> TRUE])

LightIds == 1..Cardinality(StoreEntities)

InitLights ==
    /\ InitConfig
    /\ users = (1 :> [User(1, "app#a") EXCEPT !.last_use_date = 0])
    /\ secure_strings = 1
    /\ groups \in {(1 :> Group("Room")),
                   (1 :> [Group("Home Assistant") EXCEPT !.enabled = FALSE])}
    /\ lights = (1 :> StoredLight("light.a"))
    /\ hass = [e \in Entities |-> HassDict(HASS_STATE_ON, 75, None, {"brightness"})]
    /\ InitDisk

NextLights ==
    \/ reqs = EmptyBag /\ Receive(SearchLights)
    \/ \E rq \in BagToSet(reqs) : \E order \in Orders(DOMAIN hass) :
          async_search_new_lights(rq, order)
    \/ \E order \in Orders(DOMAIN hass) : async_get_lights(GetLights, order)
    \/ \E l \in LightIds :
          async_delete_localitem(
             Request("delete_localitem", 1, l, DeleteItem("lights")))
    \/ \E e \in StoreEntities : EntityAdded(e)
    \/ \E t \in BagToSet(timers) : TimerFire(t)

SpecLights == InitLights /\ [][NextLights]_vars

-----------------------------------------------------------------------------
(* Entertainment sessions: two stored users start and stop streaming on    *)
(* two Entertainment groups, the groups get actions and are deleted, one   *)
(* request at a time; the async_run task of a session runs at any later    *)
(* moment.                                                                 *)

StreamUsers  == {1, 2}
StreamGroups == {1, 2}

RequestsEntertainment ==
    {Request("update_group", u, g, GroupBody(a)) :
        u \in StreamUsers, g \in StreamGroups, a \in {"true", "false"}}
    \cup {Request("group_action", 1, g, [json |-> TRUE]) : g \in StreamGroups}

DeletesEntertainment ==
    {Request("delete_localitem", 1, g, DeleteItem("groups")) : g \in StreamGroups}

InitEntertainment ==
    /\ InitConfig
    /\ users = [u \in StreamUsers |->
                  [User(u, "app#a") EXCEPT !.last_use_date = 0]]
    /\ secure_strings = 2
    /\ groups = [g \in StreamGroups |-> Group("Other")]
    /\ lights = (1 :> StoredLight("light.a"))
    /\ hass = [e \in Entities |-> HassDict(HASS_STATE_ON, 75, None, {"brightness"})]
    /\ InitDisk

NextEntertainment ==
    \/ \E rq \in RequestsEntertainment : reqs = EmptyBag /\ Receive(rq)
    \/ \E rq \in BagToSet(reqs) : async_update_group(rq)
    \/ \E rq \in BagToSet(reqs) : async_group_action(rq)
    \/ \E rq \in DeletesEntertainment :
          reqs = EmptyBag /\ async_delete_localitem(rq)
    \/ \E j \in BagToSet(jobs) : SaveReplace(j)
    \/ \E j \in BagToSet(jobs) : SaveOpen(j)
    \/ \E j \in BagToSet(jobs) : SaveWrite(j)
    \/ \E live \in BOOLEAN : async_run(live)
    \/ \E t \in BagToSet(tasks) : RunTask(t)

SpecEntertainment == InitEntertainment /\ [][NextEntertainment]_vars

-----------------------------------------------------------------------------
(* The commands of the v1 API on one light: a stored user sends PUT        *)
(* .../lights/1/state with and without bri, transitiontime, ct and         *)
(* hue/sat to a light of any class, throttled or not, one at a time.       *)

CommandThrottles == {DEFAULT_THROTTLE_MS, 500}

ActionBodies ==
    {Body(on, bri, tt, None) :
        on \in {"absent", "true"}, bri \in {None, 0, 200}, tt \in {None, 1, 10}}
    \cup {Body("false", None, None, None), Body("absent", 200, None, 300),
          [Body("absent", 200, None, None) EXCEPT !.hue = 1000, !.sat = 100]}

InitCommand ==
    /\ InitConfig
    /\ users = (1 :> [User(1, "app#a") EXCEPT !.last_use_date = 0])
    /\ secure_strings = 1
    /\ groups = <<>>
    /\ \E t \in CommandThrottles, st \in StoredStates :
          lights = (1 :> [entity_id |-> "light.a", enabled |-> TRUE,
                          throttle |-> t, state |-> st])
    /\ \E m \in SupportedModes :
          hass \in [Entities -> HassDicts(m)]
    /\ InitDisk

NextCommand ==
    \/ \E body \in ActionBodies : DevCommand(body)
    \/ \E rq \in BagToSet(reqs) : CallReturns(rq)

SpecCommand == InitCommand /\ [][NextCommand]_vars

-----------------------------------------------------------------------------
(* Resources that exist and that do not: a stored user reads and commands  *)
(* lights 1 and 2, creates scenes, and deletes scenes, groups and lights   *)
(* 1 and 2, one request at a time; light 1 and group 1 are stored.         *)

ResourceIds == {1, 2}

RequestsResources ==
    {Request("put_light_state", 1, l, Body("true", 200, None, None)) :
        l \in ResourceIds}
    \cup {Request("create_localitem", 1, None, SceneBody(1))}

DeletesResources ==
    {Request("delete_localitem", 1, i, DeleteItem(t)) :
        i \in ResourceIds, t \in {"scenes", "groups", "lights"}}

InitResources ==
    /\ InitConfig
    /\ users = (1 :> [User(1, "app#a") EXCEPT !.last_use_date = 0])
    /\ secure_strings = 1
    /\ groups \in {(1 :> Group("Room")), (1 :> Group("Home Assistant"))}
    /\ lights = (1 :> StoredLight("light.a"))
    /\ hass = [e \in Entities |-> HassDict(HASS_STATE_ON, 75, None, {"brightness"})]
    /\ InitDisk

NextResources ==
    \/ \E rq \in RequestsResources : reqs = EmptyBag /\ Receive(rq)
    \/ \E rq \in BagToSet(reqs) : async_put_light_state(rq)
    \/ \E rq \in BagToSet(reqs) : CallReturns(rq)
    \/ \E rq \in BagToSet(reqs) : async_create_localitem(rq)
    \/ \E l \in ResourceIds :
          reqs = EmptyBag
          /\ async_get_light(Request("get_light", 1, l, [json |-> TRUE]))
    \/ \E rq \in DeletesResources : reqs = EmptyBag /\ async_delete_localitem(rq)
    \/ \E j \in BagToSet(jobs) : SaveReplace(j)
    \/ \E j \in BagToSet(jobs) : SaveOpen(j)
    \/ \E j \in BagToSet(jobs) : SaveWrite(j)

SpecResources == InitResources /\ [][NextResources]_vars

-----------------------------------------------------------------------------
(* The bridge configuration: a stored user sends PUT /api/{u}/config with  *)
(* or without linkbutton and name, one request at a time; link mode ends   *)
(* by its timer and the delayed commit is written.                         *)

BridgeConfigBodies ==
    {ConfigBody(l, n) : l \in {"true", "false", NoneS},
                        n \in BridgeNames \cup {NoneS}}

InitBridgeConfig == InitStore

NextBridgeConfig ==
    \/ \E b \in BridgeConfigBodies :
          reqs = EmptyBag /\ Receive(Request("change_config", 1, None, b))
    \/ \E rq \in BagToSet(reqs) : async_change_config(rq)
    \/ \E t \in BagToSet(timers) : TimerFire(t)
    \/ \E t \in BagToSet(tasks) : RunTask(t)
    \/ SleepEnds
    \/ \E j \in BagToSet(jobs) : SaveReplace(j)
    \/ \E j \in BagToSet(jobs) : SaveOpen(j)
    \/ \E j \in BagToSet(jobs) : SaveWrite(j)

SpecBridgeConfig == InitBridgeConfig /\ [][NextBridgeConfig]_vars

-----------------------------------------------------------------------------
(* The colour of a light read and written back: the backend reports a hue  *)
(* and a saturation, a stored user reads the light with GET and sends the  *)
(* hue and sat of the answer back with PUT .../state.                      *)

BackendHues == 0..360
BackendSats == {50, 99}

GetLight == Request("get_light", 1, 1, [json |-> TRUE])

InitColour ==
    /\ InitConfig
    /\ users = (1 :> [User(1, "app#a") EXCEPT !.last_use_date = 0])
    /\ secure_strings = 1
    /\ groups = <<>>
    /\ lights = (1 :> StoredLight("light.a"))
    /\ \E h \in BackendHues, sat \in BackendSats :
          hass = [e \in Entities |->
                    [HassDict(HASS_STATE_ON, 75, None, {"hs"})
                       EXCEPT !.attributes.hs_color = <<h, sat>>,
                              !.attributes.color_mode = "hs"]]
    /\ InitDisk

(* The client sends back the hue and sat it was given.                     *)
PutColourBack ==
    /\ resp.sent /\ resp.route = "get_light" /\ "hs" \in DOMAIN resp
    /\ DevCommand([Body("absent", None, None, None)
                     EXCEPT !.hue = resp.hs[1], !.sat = resp.hs[2]])

NextColour ==
    \/ reqs = EmptyBag /\ async_get_light(GetLight)
    \/ PutColourBack
    \/ \E rq \in BagToSet(reqs) : CallReturns(rq)

SpecColour == InitColour /\ [][NextColour]_vars

-----------------------------------------------------------------------------
(* Commands with colour attributes on a light that has colour and colour   *)
(* temperature: a stored user sends PUT .../lights/1/state with any of ct, *)
(* hue and sat, and xy, one at a time.                                     *)

ColourBodies ==
    {[Body("absent", None, None, ct) EXCEPT !.hue = hs[1], !.sat = hs[2], !.xy = xy] :
        ct \in {None, 300}, hs \in {<<None, None>>, <<1000, 100>>},
        xy \in {NoneT, <<1, 1>>}}

InitColourMode ==
    /\ InitConfig
    /\ users = (1 :> [User(1, "app#a") EXCEPT !.last_use_date = 0])
    /\ secure_strings = 1
    /\ groups = <<>>
    /\ \E t \in CommandThrottles, st \in StoredStates :
          lights = (1 :> [entity_id |-> "light.a", enabled |-> TRUE,
                          throttle |-> t, state |-> st])
    /\ hass \in [Entities -> HassDicts({"hs", "color_temp"})]
    /\ InitDisk

NextColourMode ==
    \/ \E body \in ColourBodies : DevCommand(body)
    \/ \E rq \in BagToSet(reqs) : CallReturns(rq)

SpecColourMode == InitColourMode /\ [][NextColourMode]_vars

-----------------------------------------------------------------------------
(* The bridge configuration read by anyone: with no, one or two stored     *)
(* users, GET /api/config, GET /api/{u}/config and GET /api/{u}config      *)
(* arrive with a stored or an unknown u while a stored user changes the    *)
(* name and the link button.                                               *)

ConfigReaders == {None, 0, 1, 2}   \* no username, an unknown one, the stored ones

InitBridgeRead ==
    /\ InitConfig
    /\ users \in {<<>>,
                  (1 :> [User(1, "app#a") EXCEPT !.last_use_date = 0]),
                  (1 :> [User(1, "app#a") EXCEPT !.last_use_date = 0])
                     @@ (2 :> [User(2, "app#b") EXCEPT !.last_use_date = 0])}
    /\ secure_strings = 2
    /\ groups = <<>>
    /\ lights = (1 :> StoredLight("light.a"))
    /\ hass = [e \in Entities |-> HassDict(HASS_STATE_ON, 75, None, {"brightness"})]
    /\ InitDisk

NextBridgeRead ==
    \/ \E u \in ConfigReaders, slash \in BOOLEAN :
          reqs = EmptyBag
          /\ async_get_bridge_config(
                Request("get_bridge_config", match_username(u, slash), u,
                        [json |-> TRUE]))
    \/ \E b \in BridgeConfigBodies :
          reqs = EmptyBag /\ Receive(Request("change_config", 1, None, b))
    \/ \E rq \in BagToSet(reqs) : async_change_config(rq)
    \/ \E t \in BagToSet(timers) : TimerFire(t)
    \/ \E t \in BagToSet(tasks) : RunTask(t)
    \/ SleepEnds
    \/ \E j \in BagToSet(jobs) : SaveReplace(j)
    \/ \E j \in BagToSet(jobs) : SaveOpen(j)
    \/ \E j \in BagToSet(jobs) : SaveWrite(j)

SpecBridgeRead == InitBridgeRead /\ [][NextBridgeRead]_vars

-----------------------------------------------------------------------------
(* Areas of the backend as groups: a stored user lists the groups, deletes *)
(* them and searches for lights, one request at a time.                    *)

MaxGroupId == 4   \* groups are listed while the highest group id is below this

GetGroups == Request("get_groups", 1, None, [json |-> TRUE])

DeletesAreas ==
    {Request("delete_localitem", 1, i, DeleteItem("groups")) : i \in 1..MaxGroupId}

InitAreas ==
    /\ InitConfig
    /\ users = (1 :> [User(1, "app#a") EXCEPT !.last_use_date = 0])
    /\ secure_strings = 1
    /\ groups \in {<<>>, (1 :> Group("Room"))}
    /\ lights = (1 :> StoredLight("light.a"))
    /\ hass = [e \in Entities |-> HassDict(HASS_STATE_ON, 75, None, {"brightness"})]
    /\ InitDisk

NextAreas ==
    \/ /\ reqs = EmptyBag
       /\ (IF DOMAIN groups = {} THEN TRUE ELSE Max(DOMAIN groups) < MaxGroupId)
       /\ async_get_groups(GetGroups)
    \/ \E rq \in DeletesAreas : reqs = EmptyBag /\ async_delete_localitem(rq)
    \/ reqs = EmptyBag /\ Receive(SearchLights)
    \/ \E rq \in BagToSet(reqs) : \E order \in Orders(DOMAIN hass) :
          async_search_new_lights(rq, order)
    \/ \E t \in BagToSet(timers) : TimerFire(t)
    \/ SleepEnds
    \/ \E j \in BagToSet(jobs) : SaveReplace(j)
    \/ \E j \in BagToSet(jobs) : SaveOpen(j)
    \/ \E j \in BagToSet(jobs) : SaveWrite(j)

SpecAreas == InitAreas /\ [][NextAreas]_vars

-----------------------------------------------------------------------------
(* controllers/entertainment.py: the read loop of async_run.               *)

(* b"HueStream" *)
HueStream == <<72, 117, 101, 83, 116, 114, 101, 97, 109>>

pkt_header_begin_size    == 9
pkt_header_protocol_size == 7
pkt_header_uuid_size     == 36
pkt_light_data_size      == 9 * 20
max_pkt_size == pkt_header_begin_size + pkt_header_protocol_size
                   + pkt_header_uuid_size + pkt_light_data_size

(* _likely_pktsize of a session whose group has num_lights lights.         *)
likely_pktsize_of(num_lights) == 16 + (9 * num_lights)

(* A version 1 frame without light data: the sentinel, then protocol       *)
(* version 1.0, the sequence number, two reserved bytes, the colour space  *)
(* RGB and a reserved byte.                                                *)
Frame(seq) == HueStream \o <<1, 0, seq, 0, 0, 0, 0>>

IsPrefix(p, s) == Len(s) >= Len(p) /\ SubSeq(s, 1, Len(p)) = p

(* s[-n:] for n > 0 *)
LastBytes(s, n) == IF Len(s) <= n THEN s ELSE SubSeq(s, Len(s) - n + 1, Len(s))

(* bytes.split(sep): the pieces between the leftmost occurrences of sep    *)
(* that do not overlap; cur is the piece being read.                       *)
RECURSIVE split_from(_, _, _)
split_from(s, sep, cur) ==
    IF s = <<>> THEN <<cur>>
    ELSE IF IsPrefix(sep, s)
    THEN <<cur>> \o split_from(SubSeq(s, Len(sep) + 1, Len(s)), sep, <<>>)
    ELSE split_from(Tail(s), sep, Append(cur, Head(s)))

(* A split that takes the sentinel at the start of the buffer only.        *)
split_AtStart(s, sep) ==
    IF IsPrefix(sep, s) THEN <<<<>>, SubSeq(s, Len(sep) + 1, Len(s))>> ELSE <<s>>

(* bytes.split(sep) *)
split(s, sep) == split_from(s, sep, <<>>)

(* chunked(size, source): the slices of at most size bytes.                *)
RECURSIVE chunked(_, _)
chunked(size, source) ==
    IF source = <<>> THEN <<>>
    ELSE <<SubSeq(source, 1, Min(size, Len(source)))>>
            \o chunked(size, SubSeq(source, Min(size, Len(source)) + 1, Len(source)))

(* RGBControl.set_rgb *)
set_rgb(cs, r, g, b) == [cs EXCEPT !.rgb_color = <<r, g, b>>, !.color_mode = "rgb"]

(* str(light_data[1] + light_data[2]): the key under which the record's    *)
(* light is looked up.                                                     *)
stream_light_id(light_data) == light_data[2] + light_data[3]

(* A key that is the big-endian value of the two bytes.                    *)
stream_light_id_BigEndian(light_data) == light_data[2] * 256 + light_data[3]

(* The control state that __async_process_light_packet builds from a       *)
(* record of the RGB colour space: power on, the three channels scaled to  *)
(* a byte, their mean as brightness, and no transition below the throttle. *)
stream_control_state(dev, persisted, light_data) ==
    LET red   == (light_data[4] * 256 + light_data[5]) \div 256
        green == (light_data[6] * 256 + light_data[7]) \div 256
        blue  == (light_data[8] * 256 + light_data[9]) \div 256
        c0 == EntityState(persisted.power_state,
                          dev_transition_seconds(dev, persisted))
        c1 == set_rgb(set_power_state(c0, TRUE), red, green, blue)
        c2 == set_brightness(c1, (red + green + blue) \div 3)
    IN  set_transition_ms(c2, dev.throttle_ms, 0, TRUE)

(* call.async_execute() of the record's command on the cached device of    *)
(* entity e: the gate and, when it passes, the backend call and the        *)
(* recomposition of the persisted state.                                   *)
stream_execute(st, e, control_state, light_data, seq) ==
    LET gate == update_allowed(st.cache[e], st.lights[st.cache[e].light_id].state,
                               control_state, wall_ms)
    IN  [st EXCEPT
           !.cache = [@ EXCEPT ![e].last_update = gate.last_update],
           !.lights = IF gate.allowed
                      THEN [@ EXCEPT ![st.cache[e].light_id].state =
                              update_config_states(@, st.cache[e].hass_state,
                                                   <<control_state>>)]
                      ELSE @,
           !.saved = @ \/ gate.allowed,
           !.calls = Append(@, [light_id |-> st.cache[e].light_id, seq |-> seq,
                                id_bytes |-> SubSeq(light_data, 2, 3),
                                called |-> gate.allowed])]

(* __async_process_light_packet once the record's light was found, on the  *)
(* state after async_get_device: an index past the end of a short record   *)
(* and set_rgb on a device that is not an RGBDevice raise.                 *)
stream_command(st, e, light_data, seq) ==
    IF st.raised THEN st
    ELSE IF Len(light_data) < 9 \/ ~IsRGB(st.cache[e].kind)
    THEN [st EXCEPT !.raised = TRUE]
    ELSE stream_execute(st, e,
            stream_control_state(st.cache[e],
                                 st.lights[st.cache[e].light_id].state, light_data),
            light_data, seq)

(* __async_process_light_packet, on st = [lights, cache, allocated, saved, *)
(* raised, calls, ...]: a record too short to hold an id and a light id    *)
(* without a record raise.                                                 *)
process_light_packet(st, light_data, seq) ==
    IF Len(light_data) < 3 THEN [st EXCEPT !.raised = TRUE]
    ELSE IF stream_light_id(light_data) \notin DOMAIN st.lights
    THEN [st EXCEPT !.raised = TRUE]
    ELSE stream_command(
            get_device(st, st.lights[stream_light_id(light_data)].entity_id),
            st.lights[stream_light_id(light_data)].entity_id, light_data, seq)

(* asyncio.gather over the light records of a packet: a record that raises *)
(* does not stop the coroutines of the other records.                      *)
RECURSIVE gather(_, _, _)
gather(st, chunks, seq) ==
    IF chunks = <<>> THEN st
    ELSE LET r == process_light_packet([st EXCEPT !.raised = FALSE], Head(chunks), seq)
         IN  gather([r EXCEPT !.raised = st.raised \/ r.raised], Tail(chunks), seq)

(* __process_packet: a packet shorter than its header is ignored; the      *)
(* light data follow the 16 bytes of a version 1 header, the 52 bytes of a *)
(* version 2 header.                                                       *)
process_packet(st, packet) ==
    IF Len(packet) < pkt_header_begin_size + pkt_header_protocol_size THEN st
    ELSE LET version == packet[10]
             lights_data == IF version = 1 THEN SubSeq(packet, 17, Len(packet))
                            ELSE SubSeq(packet, 53, Len(packet))
         IN  gather(st, chunked(9, lights_data), packet[12])

(* "for pkt in pkts[:-1]: await self.__process_packet(pkt)": an exception  *)
(* of a packet ends the loop, the later packets are not handed over.       *)
RECURSIVE process_packets(_, _)
process_packets(st, pkts) ==
    IF pkts = <<>> \/ st.raised THEN st
    ELSE process_packets(
            process_packet([st EXCEPT !.handed = Append(@, Head(pkts))], Head(pkts)),
            Tail(pkts))

(* One turn of the loop of async_run: stdout.read(_likely_pktsize) returns *)
(* k bytes, at least one and no more than were asked for; every piece of   *)
(* the buffer but the last goes to __process_packet behind the sentinel.   *)
(* An exception of __process_packet ends the coroutine; the session stays  *)
(* with Config and its subprocess stays alive.                             *)
Read(k) ==
    /\ entertainment_api # <<>> /\ entertainment_api[1].pc = "running"
    /\ k \in 1..likely_pktsize /\ nread + k <= Len(stdout)
    /\ nread' = nread + k
    /\ LET kept == LastBytes(buffer, (max_pkt_size + pkt_header_begin_size) * 2)
           buf  == kept \o SubSeq(stdout, nread + 1, nread + k)
           pkts == split(buf, HueStream)
           n    == Len(pkts)
           pkt  == HueStream \o pkts[n - 1]
           guess == Len(pkt) - Len(pkts[n])
           st   == process_packets(
                      Walk @@ [calls |-> stream_calls, handed |-> <<>>],
                      [i \in 1..(n - 1) |-> HueStream \o pkts[i]])
       IN  IF n > 1
           THEN /\ packets' = packets \o st.handed
                /\ stream_calls' = st.calls
                /\ lights' = st.lights
                /\ device_cache' = st.cache
                /\ allocated' = st.allocated
                /\ saver_task' = IF st.saved THEN create_save_task(saver_task)
                                 ELSE saver_task
                /\ IF st.raised
                   THEN /\ entertainment_api' =
                              <<[entertainment_api[1] EXCEPT !.pc = "failed"]>>
                        /\ buffer' = buf
                        /\ UNCHANGED likely_pktsize
                   ELSE /\ buffer' = pkts[n]
                        /\ likely_pktsize' = IF guess > 0 THEN guess ELSE likely_pktsize
                        /\ UNCHANGED entertainment_api
           ELSE /\ buffer' = buf
                /\ UNCHANGED <<packets, likely_pktsize, stream_calls, lights,
                               device_cache, allocated, saver_task,
                               entertainment_api>>
    /\ resp' = NoResp /\ cmd' = NoCmd /\ ran' = NoTask
    /\ UNCHANGED <<users, bridge_config, scenes, groups, link_mode_enabled,
                   link_mode_discovery_key, loopVars, linkHist, hass, wall_ms,
                   last_accept_ms, last_accepted, jobs, disk, process,
                   new_lights, daemonVars, stdout>>

MaxFrames == 3   \* frames in the stream

SeqNumbers == {1, 72}   \* sequence numbers; 72 is the first byte of the sentinel

(* The byte streams: n frames one after the other.                         *)
RECURSIVE Concat(_)
Concat(fs) == IF fs = <<>> THEN <<>> ELSE Head(fs) \o Concat(Tail(fs))

FrameSeqs == UNION {[1..n -> {Frame(q) : q \in SeqNumbers}] : n \in 0..MaxFrames}

(* The session of a group without lights runs its loop and the client has  *)
(* sent a whole stream of frames.                                          *)
InitStream ==
    /\ bridge_config = <<>> /\ scenes = <<>>
    /\ link_mode_enabled = FALSE /\ link_mode_discovery_key = None
    /\ entertainment_api = <<[EntertainmentAPI(1, 1) EXCEPT !.pc = "running"]>>
    /\ timers = EmptyBag /\ tasks = EmptyBag /\ loop_time = 0
    /\ reqs = EmptyBag
    /\ resp = NoResp /\ cmd = NoCmd /\ ran = NoTask
    /\ link_enabled_at = None /\ key_set_at = None
    /\ pairings = 0 /\ dead_tokens = {}
    /\ last_accept_ms = None /\ last_accepted = <<>>
    /\ device_cache = <<>> /\ wall_ms = 0
    /\ saver_task = "none" /\ jobs = EmptyBag /\ process = "running"
    /\ new_lights = {} /\ allocated = <<>>
    /\ socket_daemons = 1 /\ interrupted_runs = 0
    /\ stdout \in {Concat(fs) : fs \in FrameSeqs}
    /\ nread = 0 /\ buffer = <<>> /\ packets = <<>> /\ stream_calls = <<>>
    /\ likely_pktsize = likely_pktsize_of(0)
    /\ users = (1 :> [User(1, "app#a") EXCEPT !.last_use_date = 0])
    /\ secure_strings = 1
    /\ groups = (1 :> Group("Other"))
    /\ lights = <<>>
    /\ hass = <<>>
    /\ InitDisk

NextStream == \E k \in 1..likely_pktsize_of(0) : Read(k)

SpecStream == InitStream /\ [][NextStream]_vars

-----------------------------------------------------------------------------
(* Streamed light records: the session of a group with one light runs its  *)
(* loop; the client has sent frames whose records name the stored light,   *)
(* an id whose high byte is set, an id without a record, or are cut short. *)

(* A 9-byte light record: type, the two bytes of the id, red at full.      *)
LightRecord(b1, b2) == <<0, b1, b2, 255, 255, 0, 0, 0, 0>>

LightPayloads ==
    {LightRecord(0, 1), LightRecord(1, 0), LightRecord(0, 2),
     SubSeq(LightRecord(0, 1), 1, 5),
     LightRecord(0, 2) \o LightRecord(0, 1)}

LightFrameSeqs ==
    UNION {{[i \in 1..n |-> Frame(i) \o f[i]] : f \in [1..n -> LightPayloads]} :
              n \in 1..MaxFrames}

ReadSizes == {7, 25}   \* the lengths stdout.read returns

InitLightStream ==
    /\ InitConfig
    /\ users = (1 :> [User(1, "app#a") EXCEPT !.last_use_date = 0])
    /\ secure_strings = 1
    /\ groups = (1 :> Group("Other"))
    /\ lights = (1 :> StoredLight("light.a"))
    /\ hass = [e \in Entities |-> HassDict(HASS_STATE_ON, 75, None, {"rgb"})]
    /\ InitDisk

(* The session was started, its subprocess runs and the client has sent    *)
(* its frames.                                                             *)
StreamBegins ==
    /\ entertainment_api = <<>> /\ stdout = <<>> /\ packets = <<>>
    /\ entertainment_api' = <<[EntertainmentAPI(1, 1) EXCEPT !.pc = "running"]>>
    /\ socket_daemons' = socket_daemons + 1
    /\ \E fs \in LightFrameSeqs : stdout' = Concat(fs)
    /\ likely_pktsize' = likely_pktsize_of(1)
    /\ resp' = NoResp /\ cmd' = NoCmd /\ ran' = NoTask
    /\ UNCHANGED <<users, bridge_config, scenes, groups, link_mode_enabled,
                   link_mode_discovery_key, loopVars, linkHist, deviceVars,
                   storeVars, new_lights, allocated, interrupted_runs, nread,
                   buffer, packets, stream_calls>>

NextLightStream ==
    \/ StreamBegins
    \/ \E k \in ReadSizes : Read(k)

SpecLightStream == InitLightStream /\ [][NextLightStream]_vars

-----------------------------------------------------------------------------
(* Groups and scenes: scenes are created, and scenes and the group are     *)
(* deleted, by a stored user, one request at a time; each hard deletion    *)
(* awaits its save_json.                                                   *)

RequestsScenes ==
    {Request("create_localitem", 1, None, SceneBody(g)) : g \in {None, 1, 2}}

DeletesScenes ==
    {Request("delete_localitem", 1, i, DeleteItem(t)) :
        i \in 1..MaxItems, t \in {"groups", "scenes"}}

InitScenes ==
    /\ InitConfig
    /\ users = (1 :> [User(1, "app#a") EXCEPT !.last_use_date = 0])
    /\ secure_strings = 1
    /\ groups \in {(1 :> Group("Room")), (1 :> Group("Home Assistant"))}
    /\ lights = (1 :> StoredLight("light.a"))
    /\ hass = [e \in Entities |-> HassDict(HASS_STATE_ON, 75, None, {"brightness"})]
    /\ InitDisk

NextScenes ==
    \/ \E rq \in RequestsScenes : reqs = EmptyBag /\ Receive(rq)
    \/ \E rq \in BagToSet(reqs) : async_create_localitem(rq)
    \/ \E rq \in DeletesScenes : reqs = EmptyBag /\ async_delete_localitem(rq)
    \/ \E j \in BagToSet(jobs) : SaveReplace(j)
    \/ \E j \in BagToSet(jobs) : SaveOpen(j)
    \/ \E j \in BagToSet(jobs) : SaveWrite(j)

SpecScenes == InitScenes /\ [][NextScenes]_vars

-----------------------------------------------------------------------------
(* Saves that overlap: scenes are created and deleted as above while the   *)
(* delayed-commit task wakes up, so the save_json of a hard delete and the *)
(* save_json of the saver task can be in the executor together.            *)

InitSaves == InitScenes

NextSaves ==
    \/ NextScenes
    \/ SleepEnds

SpecSaves == InitSaves /\ [][NextSaves]_vars

-----------------------------------------------------------------------------
(* Claims about pairing, checked under Spec and SpecAuth.  resp is the response that    *)
(* the last step sent, ran the task that it ran.                           *)

PostAuthAnswered == resp'.sent /\ resp'.route = "post_auth"
Paired           == PostAuthAnswered /\ resp'.kind = "success"
LinkAnswered     == resp'.sent /\ resp'.route = "link"

(* The step takes the POST /api rq from the await of its body.             *)
PostAuthProcessed(rq) ==
    /\ rq.route = "post_auth" /\ rq.pc = "text"
    /\ CopiesIn(rq, reqs') < CopiesIn(rq, reqs)

(* The step answers rq with 101, or leaves it at the await after which the *)
(* only answer is 101.                                                     *)
Answers101(rq) ==
    \/ PostAuthAnswered /\ resp'.kind = "error" /\ resp'.type = 101
    \/ BagIn([rq EXCEPT !.pc = "notify"], reqs')

(* The body is JSON with a devicetype that is not Home Assistant's.        *)
WellFormed(body) ==
    /\ body.json
    /\ body.devicetype # NoneS
    /\ body.devicetype \notin HomeAssistantTypes

-----------------------------------------------------------------------------
(* Claims about authentication, checked under SpecAuth.                    *)

(* The routes under /api/{username}/ with the methods PUT, POST, DELETE.   *)
StateChangingRoutes ==
    {"change_config", "put_light_state", "create_localitem", "update_group",
     "delete_localitem"} \cup UnknownRoutes

UnauthorizedAnswered ==
    /\ resp'.sent /\ resp'.route \in StateChangingRoutes
    /\ resp'.username \notin DOMAIN users

(* No backend call, no change to the stored document, to a device, to link *)
(* mode or to the entertainment session.                                   *)
NoEffect ==
    /\ UNCHANGED <<configVars, lights, device_cache, hass, last_accept_ms,
                   last_accepted,
                   timers, tasks, linkHist, storeVars, new_lights, daemonVars>>
    /\ cmd' = NoCmd

(* A request whose username is not stored stays in flight only on a route  *)
(* of the catch-all, and taking it in changes nothing.                     *)
UnauthorizedInFlight ==
    \A rq \in BagToSet(reqs') :
       (rq.route \in StateChangingRoutes /\ rq.username \notin DOMAIN users') =>
          /\ rq.route \in UnknownRoutes
          /\ CopiesIn(rq, reqs') > CopiesIn(rq, reqs) => NoEffect

(* C2 as stated: for every PUT, POST or DELETE under /api/{username}/...,  *)
(* if the username is not a stored user the response is error type 1 and   *)
(* the request causes no backend call and no change to the stored          *)
(* document, to a device state, to link mode or to the entertainment       *)
(* session.                                                                *)
C2_UnauthorizedIsError1 ==
    [][ /\ UnauthorizedAnswered =>
             /\ resp'.kind = "error" /\ resp'.type = 1
             /\ NoEffect
        /\ UnauthorizedInFlight ]_vars

(* C2, amended: a PUT, POST or DELETE under /api/{username}/... with a     *)
(* username that is not stored is answered with error type 1 on a routed   *)
(* path and with error type 404 on a path of the catch-all, and in both    *)
(* cases it causes no backend call and no change to the stored document,   *)
(* to a device state, to link mode or to the entertainment session.        *)
C2_UnauthorizedHasNoEffect ==
    [][ /\ UnauthorizedAnswered =>
             /\ resp'.kind = "error"
             /\ resp'.type = IF resp'.route \in UnknownRoutes THEN 404 ELSE 1
             /\ NoEffect
        /\ UnauthorizedInFlight ]_vars

(* An unknown username is refused on a route that would have changed the   *)
(* entertainment session, while a session and link mode are on.            *)
C2_Witness ==
    /\ resp.sent /\ resp.route = "update_group"
    /\ resp.username \in BadUsernames
    /\ resp.kind = "error" /\ resp.type = 1
    /\ entertainment_api # <<>>
    /\ link_mode_enabled

-----------------------------------------------------------------------------
(* Claims about pairing, continued.                                        *)

(* C3: link mode goes from disabled to enabled only through GET            *)
(* /link/{token} with the current, non-null discovery token, or through a  *)
(* PUT /api/{u}/config with linkbutton true from a stored user; a token    *)
(* that has expired or was used never enables link mode.                   *)
C3_LinkModeEnabledOnlyBy ==
    [][ /\ (~link_mode_enabled /\ link_mode_enabled') =>
             \/ /\ LinkAnswered /\ resp'.kind = "success"
                /\ link_mode_discovery_key # None
                /\ resp'.arg = link_mode_discovery_key
             \/ /\ resp'.sent /\ resp'.route = "change_config"
                /\ resp'.body.linkbutton = "true"
                /\ resp'.username \in DOMAIN users
        /\ (LinkAnswered /\ resp'.arg \in dead_tokens) =>
             /\ resp'.kind = "error"
             /\ link_mode_enabled' = link_mode_enabled ]_vars

(* A token that enabled link mode is presented again and is refused.       *)
C3_Witness ==
    /\ resp.sent /\ resp.route = "link" /\ resp.kind = "error"
    /\ resp.arg \in dead_tokens
    /\ link_enabled_at # None

(* The user registered under the devicetype of the POST /api just answered. *)
Registered(us, devicetype) == {u \in DOMAIN us : us[u].name = devicetype}

(* C4 as stated: after a POST /api with devicetype d has succeeded, the    *)
(* same POST /api sent again returns the same username: no error is        *)
(* returned and no second user is created.                                 *)
C4_RepeatReturnsSameUser ==
    [][ (PostAuthAnswered /\ resp'.body.json
            /\ Registered(users, resp'.body.devicetype) # {}) =>
          /\ resp'.kind = "success"
          /\ resp'.data \in Registered(users, resp'.body.devicetype)
          /\ DOMAIN users' = DOMAIN users ]_vars

(* C4, amended: a POST /api with a devicetype that is registered creates   *)
(* no second user; processed while link mode is enabled it returns the     *)
(* registered username, and otherwise it returns error 101.                *)
C4_RepeatCreatesNoUser ==
    [][ (PostAuthAnswered /\ resp'.body.json
            /\ Registered(users, resp'.body.devicetype) # {}) =>
          /\ DOMAIN users' = DOMAIN users
          /\ resp'.kind = "success" =>
                resp'.data \in Registered(users, resp'.body.devicetype)
          /\ resp'.kind = "error" => resp'.type = 101
          /\ (resp'.stage = "text" /\ link_mode_enabled) => resp'.kind = "success"
          /\ (resp'.stage = "text" /\ ~link_mode_enabled) => resp'.kind = "error" ]_vars

(* The user that was stored from the start pairs again and gets its key.   *)
C4_Witness ==
    /\ resp.sent /\ resp.route = "post_auth" /\ resp.kind = "success"
    /\ resp.body.devicetype = "app#a" /\ resp.data = 1
    /\ DOMAIN users = {1}

(* C5: a successful POST /api disables link mode at once, so at most one   *)
(* POST /api succeeds between two consecutive enablings of link mode,      *)
(* whatever the interleaving of concurrent POST /api requests.             *)
C5_OnePairingPerWindow ==
    /\ pairings <= 1
    /\ (resp.sent /\ resp.route = "post_auth" /\ resp.kind = "success")
          => ~link_mode_enabled

(* A POST /api succeeds while another POST /api is in flight.              *)
C5_Witness ==
    /\ resp.sent /\ resp.route = "post_auth" /\ resp.kind = "success"
    /\ pairings = 1
    /\ \E rq \in BagToSet(reqs) : rq.route = "post_auth"

-----------------------------------------------------------------------------
(* Claims about the link-mode timers, checked under SpecTimed.             *)

(* C6: each link-mode flag, once set, stays set until 300 s have passed    *)
(* since it was set or until it is consumed (link mode by a successful     *)
(* pairing, the token by a matching /link or by the pairing it led to): a  *)
(* timer of an earlier cycle never ends a later window early.              *)
C6_WindowNotCutShort ==
    [][ /\ (link_mode_enabled /\ ~link_mode_enabled') =>
             \/ Paired
             \/ loop_time - link_enabled_at >= LINK_MODE_SECONDS
        /\ (link_mode_discovery_key # None /\ link_mode_discovery_key' = None) =>
             \/ LinkAnswered /\ resp'.kind = "success"
             \/ ran'.kind = "disable_link_mode_discovery" /\ ran'.by = "pairing"
             \/ loop_time - key_set_at >= LINK_MODE_SECONDS ]_vars

(* C7: link mode self-expires: it is disabled no later than 300 s after    *)
(* each transition from disabled to enabled, whatever requests arrive.     *)
C7_LinkModeExpires ==
    link_mode_enabled => loop_time - link_enabled_at <= LINK_MODE_SECONDS

(* The timer ends a window that nothing else ended, 300 s after it began.  *)
C7_Witness ==
    /\ ran.kind = "disable_link_mode" /\ ran.by = "timer"
    /\ ~link_mode_enabled
    /\ loop_time = link_enabled_at + LINK_MODE_SECONDS

-----------------------------------------------------------------------------
(* Claims about the update gate, checked under SpecDevice.  cmd describes  *)
(* the command that the last step passed to async_execute, if it did.      *)

(* The attribute that color_mode selects in an EntityState.                *)
ColorAttribute(s) ==
    IF s.color_mode = "color_temp" THEN <<"color_temp", s.color_temp>>
    ELSE IF s.color_mode = "hs" THEN <<"hs", s.hue_saturation>>
    ELSE IF s.color_mode = "xy" THEN <<"xy", s.xy_color>>
    ELSE IF s.color_mode = "rgb" THEN <<"rgb", s.rgb_color>>
    ELSE <<"none">>

(* Equality for coalescing: power, brightness and selected colour.         *)
CoalesceEq(a, b) ==
    /\ a.power_state = b.power_state
    /\ a.brightness = b.brightness
    /\ ColorAttribute(a) = ColorAttribute(b)

BothBrightness == Truthy(cmd.control_state.brightness) /\ Truthy(cmd.persisted.brightness)
BrightnessDelta == Abs(cmd.persisted.brightness - cmd.control_state.brightness)
WithinThrottle ==
    /\ cmd.throttle_ms > 0
    /\ cmd.since_accept # None
    /\ cmd.since_accept < cmd.throttle_ms

(* C8: a command whose power_state, brightness and colour-mode-selected    *)
(* attribute equal those of the persisted state does not call the backend, *)
(* whatever its other fields (such as transition_seconds) are.             *)
C8_CoalescedCommandNotSent ==
    (cmd.gated /\ CoalesceEq(cmd.persisted, cmd.control_state)) => ~cmd.called

(* C9: with throttle_ms > 0, a command that arrives less than throttle_ms  *)
(* after the previous accepted command of the device, and whose brightness *)
(* differs from the persisted brightness by at most 64, produces no        *)
(* backend call.                                                           *)
C9_ThrottledCommandNotSent ==
    (cmd.gated /\ WithinThrottle /\ BothBrightness
        /\ BrightnessDelta <= BRIGHTNESS_THROTTLE_THRESHOLD) => ~cmd.called

(* C10: for a brightness-capable device, a command whose brightness        *)
(* differs from the persisted brightness by more than 64 is delivered to   *)
(* the backend, even when less than throttle_ms has elapsed since the last *)
(* accepted command.                                                       *)
C10_LargeDeltaSent ==
    (cmd.gated /\ IsBrightness(cmd.kind) /\ BothBrightness
        /\ BrightnessDelta > BRIGHTNESS_THROTTLE_THRESHOLD) => cmd.called

(* A large-delta command is delivered inside the throttle window.          *)
C10_Witness ==
    /\ cmd.gated /\ IsBrightness(cmd.kind) /\ BothBrightness
    /\ BrightnessDelta > BRIGHTNESS_THROTTLE_THRESHOLD
    /\ WithinThrottle
    /\ cmd.called

(* C11 as stated, with c1 the last accepted command: a command that        *)
(* arrives at least throttle_ms after c1 produces a backend call too.      *)
C11_SeparatedCommandsBothSent ==
    (cmd.gated /\ cmd.since_accept # None /\ cmd.since_accept >= cmd.throttle_ms)
       => cmd.called

(* C11, amended: a command that arrives at least throttle_ms after the     *)
(* last accepted command on the device and that differs, in some field,    *)
(* from the persisted state produces a backend call; the call is issued in *)
(* the step in which the command arrives, so after the call of every       *)
(* command that arrived before it.                                         *)
C11_SeparatedDifferentCommandSent ==
    [][ (cmd'.gated /\ cmd'.since_accept # None
            /\ cmd'.since_accept >= cmd'.throttle_ms
            /\ ~StateEq(cmd'.persisted, cmd'.control_state)) =>
          /\ cmd'.called
          /\ \E rq \in BagToSet(reqs') :
                /\ rq.pc = "call"
                /\ rq.control_state = <<cmd'.control_state>>
                /\ CopiesIn(rq, reqs') > CopiesIn(rq, reqs) ]_vars

(* With a throttle, a command is sent exactly throttle_ms after the last   *)
(* accepted one.                                                           *)
C11_Witness ==
    /\ cmd.gated /\ cmd.called
    /\ cmd.throttle_ms > 0
    /\ cmd.since_accept # None /\ cmd.since_accept = cmd.throttle_ms

(* The step is the refresh of the persisted state by a backend event.      *)
EventRefreshes ==
    /\ lights' # lights
    /\ reqs' = reqs /\ resp' = NoResp /\ cmd' = NoCmd

(* C13: reconciliation never rolls back an accepted command: after a       *)
(* command has been accepted, a backend event processed afterwards that    *)
(* still reports the backend state from before the command does not        *)
(* change, in the persisted state, any field that the command set.         *)
C13_EventKeepsCommand ==
    [][ (last_accepted # <<>> /\ EventRefreshes
            /\ hass'["light.a"] = last_accepted[1].hass) =>
          \A i \in 1..Len(ALL_STATES) :
             LET f == ALL_STATES[i]
             IN  ~IsNone(f, last_accepted[1].control_state[f]) =>
                    lights'[1].state[f] = lights[1].state[f] ]_vars

-----------------------------------------------------------------------------
(* Claims about concurrent commands, checked under SpecConcurrent.         *)

(* The fields of the persisted state of light l that the control state cs  *)
(* set hold the values of cs.                                              *)
HoldsCommand(l, cs) ==
    \A i \in 1..Len(ALL_STATES) :
       LET f == ALL_STATES[i]
       IN  ~IsNone(f, cs[f]) => lights[l].state[f] = cs[f]

NoCallInFlight == \A rq \in BagToSet(reqs) : rq.pc # "call"

(* C12: when two commands for the same device are both accepted, then once *)
(* both backend calls have completed every field of the persisted state    *)
(* that the later command set holds the later command's value, for every   *)
(* interleaving of the two requests at their suspension points.            *)
C12_LaterCommandWins ==
    (last_accepted # <<>> /\ NoCallInFlight)
       => HoldsCommand(1, last_accepted[1].control_state)

-----------------------------------------------------------------------------
(* Claims about the JSON store, checked under SpecStore and SpecCommit.    *)

(* C14: a crash at any point of a commit leaves the live file holding a    *)
(* whole document, the one before the write or the one written; the live   *)
(* file is never missing, empty or truncated.                              *)
C14_CrashLeavesWholeFile ==
    process = "crashed" => (disk.live.exists /\ disk.live.complete)

(* The live file holds the document that is in memory.                     *)
DiskCurrent == disk.live = File(Document)

(* C15: if the process keeps running and, from some moment on, no request  *)
(* arrives or is handled (so no mutation arrives), then from some moment   *)
(* on the live file holds the document that is in memory: every mutation,  *)
(* one that arrives while a commit is being written included, is written   *)
(* without a further mutation or a shutdown.                               *)
C15_EveryMutationIsWritten ==
    (<>[][reqs' = reqs]_vars) => <>[]DiskCurrent

(* C16: once async_stop has returned and no save_json is still running in  *)
(* the executor, the live file holds the document that is in memory,       *)
(* whatever the saver task was doing when the shutdown began.              *)
C16_StopFlushes == (process = "stopped" /\ jobs = EmptyBag) => DiskCurrent

-----------------------------------------------------------------------------
(* Claims about light ids and the listing of lights, checked under         *)
(* SpecLights and SpecStore.                                               *)

(* Each entity has at most one light record.                               *)
OneRecordPerEntity ==
    \A l1, l2 \in DOMAIN lights :
        lights[l1].entity_id = lights[l2].entity_id => l1 = l2

(* The id that was returned for an entity is the id of its record.         *)
ReturnedIdsHold ==
    \A e \in DOMAIN allocated :
        /\ allocated[e] \in DOMAIN lights
        /\ lights[allocated[e]].entity_id = e

(* C17: over allocations, deletions and searches of lights the mapping     *)
(* from entity to light id is injective and stable: an entity has one      *)
(* record, the id returned for it stays the id of its record, and no step  *)
(* removes a record or gives its id to another entity.                     *)
C17_LightIdsInjectiveAndStable ==
    /\ [](OneRecordPerEntity /\ ReturnedIdsHold)
    /\ [][ \A l \in DOMAIN lights :
              /\ l \in DOMAIN lights'
              /\ lights'[l].entity_id = lights[l].entity_id ]_vars

(* Two lights were allocated, one light is deleted and a search has        *)
(* enabled a light again.                                                  *)
C17_Witness ==
    /\ Cardinality(DOMAIN lights) = 3
    /\ Cardinality(DOMAIN allocated) >= 2
    /\ \E l \in DOMAIN lights : ~lights[l].enabled
    /\ new_lights # {}

(* C18: after allocations and a restart from the live file, the lookup of  *)
(* an entity whose id was returned before yields the same id, and that id  *)
(* is not the id of another entity's record.                               *)
C18_LightIdsSurviveRestart ==
    \A e \in DOMAIN allocated :
        /\ async_entity_id_to_light_id(lights, e).light_id = allocated[e]
        /\ \A l \in DOMAIN lights :
              l = allocated[e] => lights[l].entity_id = e

(* C19: a successful GET /api/{username}/lights lists exactly the lights   *)
(* of the backend whose record has enabled = true; a light deleted and     *)
(* not yet found by a search is absent, one found again is listed.         *)
C19_ListsExactlyEnabled ==
    (resp.sent /\ resp.route = "get_lights" /\ resp.kind = "success") =>
        resp.lights = {l \in DOMAIN lights :
                          /\ lights[l].enabled
                          /\ lights[l].entity_id \in DOMAIN hass}

(* C20: once DELETE .../groups/{g} is answered no stored scene has its      *)
(* "group" equal to g, and the steps of that request take away nothing     *)
(* but scenes of group g and the group g itself: every other scene, group  *)
(* and light is as it was.                                                 *)
GroupDeleteAnswered == resp.sent /\ resp.route = "delete_localitem"
                       /\ resp.body.itemtype = "groups"
GroupDeleteStep(g) ==
    \/ \E rq \in BagToSet(reqs) : /\ rq.route = "delete_localitem"
                                  /\ rq.body.itemtype = "groups" /\ rq.arg = g
    \/ GroupDeleteAnswered' /\ resp'.arg = g
C20_GroupDeleteCascades ==
    /\ [](GroupDeleteAnswered =>
             \A i \in 1..Len(scenes) : scenes[i].group # resp.arg)
    /\ [][ \A g \in 1..MaxItems : GroupDeleteStep(g) =>
             /\ \A i \in 1..Len(scenes) :
                   scenes[i].group # g =>
                      \E k \in 1..Len(scenes') : scenes'[k] = scenes[i]
             /\ \A k \in 1..Len(scenes') :
                   \E i \in 1..Len(scenes) : scenes'[k] = scenes[i]
             /\ \A h \in DOMAIN groups \ {g} :
                   h \in DOMAIN groups' /\ groups'[h] = groups[h]
             /\ lights' = lights /\ bridge_config' = bridge_config ]_vars

(* C21: Config holds at most one session, and a group update that asks    *)
(* for streaming while a session exists leaves that session as it is, with *)
(* its group and its user, and starts no async_run task and no             *)
(* subprocess.                                                             *)
StartAnswered == resp.sent /\ resp.route = "update_group"
                 /\ resp.kind = "success" /\ resp.body.stream_active = "true"
C21_SessionIsSingleton ==
    /\ [](Len(entertainment_api) <= 1)
    /\ [][ (entertainment_api # <<>> /\ StartAnswered') =>
              /\ entertainment_api' = entertainment_api
              /\ socket_daemons' = socket_daemons
              /\ interrupted_runs' = interrupted_runs ]_vars

C21_Witness ==
    /\ StartAnswered
    /\ entertainment_api # <<>>
    /\ entertainment_api[1].group # resp.arg
    /\ entertainment_api[1].user # resp.username
    /\ entertainment_api[1].pc = "running" /\ socket_daemons = 1

(* C22: the session of group g is dropped only by a step that answers a    *)
(* group update, a group action or a delete addressed to g, and once a     *)
(* delete of g is answered with success no session of g is left.           *)
GroupRoutes == {"update_group", "group_action", "delete_localitem"}
C22_SessionEndsWithItsGroup ==
    /\ [][ (entertainment_api # <<>> /\ entertainment_api' = <<>>) =>
              /\ resp'.sent /\ resp'.route \in GroupRoutes
              /\ resp'.arg = entertainment_api[1].group ]_vars
    /\ []( (/\ resp.sent /\ resp.route = "delete_localitem"
            /\ resp.body.itemtype = "groups" /\ resp.kind = "success")
           => ~(entertainment_api # <<>>
                /\ entertainment_api[1].group = resp.arg) )

(* C23: once every byte of a stream of n frames has been read, the packets *)
(* that __process_packet does not ignore as a bare header are the n        *)
(* frames, in order, each once.                                            *)
Processed == SelectSeq(packets, LAMBDA pkt :
                 Len(pkt) >= pkt_header_begin_size + pkt_header_protocol_size)
FramesOf(s) == [i \in 1..(Len(s) \div Len(Frame(1))) |->
                  SubSeq(s, (i - 1) * Len(Frame(1)) + 1, i * Len(Frame(1)))]
BackendCalls == {rq \in BagToSet(reqs) : rq.pc = "call"}

(* C24: the backend call of a PUT .../lights/{id}/state that carries       *)
(* bri = 0 (and does not switch the light off), for a light that can be    *)
(* dimmed, is a turn_on whose brightness is 1.                             *)
C24_BriZeroSentAsOne ==
    \A rq \in BackendCalls :
        (/\ rq.body.bri = 0 /\ rq.body.on # "false"
         /\ IsBrightness(device_cache[lights[rq.arg].entity_id].kind)) =>
            /\ rq.control_state[1].power_state
            /\ to_hass_data(rq.control_state[1]).brightness = 1

(* C25: the transition of every turn_on without flash is at least the      *)
(* light's throttle_ms: a transitiontime with transitiontime * 100 <=      *)
(* throttle_ms is sent as throttle_ms, and without a transitiontime the    *)
(* transition is 400 ms, or throttle_ms when that is more.                 *)
C25_TransitionAtLeastThrottle ==
    \A rq \in BackendCalls :
        LET data     == to_hass_data(rq.control_state[1])
            throttle == lights[rq.arg].throttle
        IN  (rq.control_state[1].power_state /\ data.flash = NoneS) =>
               /\ data.transition >= throttle
               /\ (rq.body.transitiontime # None
                   /\ rq.body.transitiontime * 100 <= throttle)
                     => data.transition = throttle
               /\ rq.body.transitiontime = None
                     => data.transition = IF throttle > 400 THEN throttle ELSE 400

(* C26: a PUT .../lights/{id}/state with ct for a light that has no colour *)
(* temperature, or with hue and sat for a light that has no colour, is not *)
(* answered with an exception.                                             *)
Unsupported(body, kind) ==
    \/ Truthy(body.ct) /\ ~IsCT(kind)
    \/ Truthy(body.hue) /\ Truthy(body.sat) /\ ~IsRGB(kind)
C26_UnsupportedAttributeIgnored ==
    (/\ resp.sent /\ resp.route = "put_light_state"
     /\ Unsupported(resp.body,
                    DeviceClass(hass[lights[resp.arg].entity_id]
                                   .attributes.supported_color_modes)))
    => resp.kind # "exception"

(* C27: a GET or a PUT .../state of a stored user that names a light id    *)
(* without a stored record is answered with an error JSON, of type 3 for   *)
(* the GET, and not with an unhandled exception.                           *)
C27_MissingLightIsErrorJson ==
    (/\ resp.sent /\ resp.route \in {"get_light", "put_light_state"}
     /\ resp.username \in DOMAIN users /\ resp.arg \notin DOMAIN lights)
    => /\ resp.kind = "error"
       /\ resp.route = "get_light" => resp.type = 3

(* C28: a DELETE of a scene, a group or a light that is not stored is      *)
(* answered with success and leaves scenes, groups and lights as they      *)
(* are.                                                                    *)
Stored(itemtype, id) ==
    IF itemtype = "groups" THEN id \in DOMAIN groups
    ELSE IF itemtype = "lights" THEN id \in DOMAIN lights
    ELSE id \in ItemIds(scenes)
C28_DeleteIsIdempotent ==
    [][ (/\ resp'.sent /\ resp'.route = "delete_localitem"
         /\ resp'.username \in DOMAIN users
         /\ ~Stored(resp'.body.itemtype, resp'.arg)) =>
            /\ resp'.kind = "success"
            /\ scenes' = scenes /\ groups' = groups /\ lights' = lights ]_vars

(* C29: the linkbutton flag is never persisted: whatever body a PUT        *)
(* /api/{u}/config carries, the stored bridge_config has no linkbutton     *)
(* key.                                                                    *)
C29_LinkbuttonNeverStored == "linkbutton" \notin DOMAIN bridge_config

(* C30: a set of a value equal to the stored one is a no-op: when PUT      *)
(* /api/{u}/config carries only the name the bridge already has, the       *)
(* document is unchanged and no commit task is created.                    *)
SetsStoredName(rq) ==
    /\ rq.route = "change_config" /\ rq.pc = "text" /\ rq.body.json
    /\ rq.body.linkbutton = NoneS /\ rq.body.name # NoneS
    /\ "name" \in DOMAIN bridge_config
    /\ bridge_config["name"] = rq.body.name
C30_EqualSetIsNoOp ==
    [][ \A rq \in BagToSet(reqs) :
          (SetsStoredName(rq) /\ async_change_config(rq)) =>
             (Document' = Document /\ saver_task' = saver_task) ]_vars

(* The backend hue the device holds, which the response converts, and the  *)
(* hue of the command built from the values that were read back.           *)
BackendHue == dev_hue_sat(cmd.persisted)[1]
CommandHs  == cmd.control_state.hue_saturation

Executing(l) == {rq \in BagToSet(reqs) : rq.pc = "call" /\ rq.arg = l}
NumExecuting(l) ==
    IF Executing(l) = {} THEN 0
    ELSE IF Cardinality(Executing(l)) = 1
    THEN CopiesIn(CHOOSE rq \in Executing(l) : TRUE, reqs)
    ELSE 2

(* C32: device mutation is a critical section: for a device at most one    *)
(* command execution is between its gate check and its recomposition of    *)
(* the persisted state, and while one is, nothing else changes the         *)
(* device's persisted or cached state.                                     *)
C32_DeviceCriticalSection ==
    [][ /\ NumExecuting(1)' <= 1
        /\ (NumExecuting(1) = 1 /\ Executing(1)' = Executing(1)) =>
              (lights'[1].state = lights[1].state
               /\ device_cache' = device_cache) ]_vars

(* C33: after a session stop no DTLS server of that session is running     *)
(* and none is started later, also when the stop comes before the          *)
(* session's start-up task has spawned the server: every server process    *)
(* alive is the one of the session that Config holds.                      *)
C33_NoServerAfterStop ==
    socket_daemons = IF entertainment_api # <<>>
                        /\ entertainment_api[1].pc = "running"
                     THEN 1 ELSE 0

(* The save_json calls of the delayed-commit task that are in the          *)
(* executor.                                                               *)
SaverJobs == {j \in BagToSet(jobs) : j.by = "saver"}

(* C34: at most one delayed-commit task is pending: a mutation that        *)
(* arrives while the task waits out its delay creates no task and starts   *)
(* no write, the task has at most one save_json in the executor and none   *)
(* while it waits, and the text that this one write serialises is the      *)
(* document with every mutation made until then.                           *)
C34_OneDelayedCommit ==
    [][ /\ (saver_task = "sleeping" /\ bridge_config' # bridge_config) =>
              (saver_task' = "sleeping" /\ jobs' = jobs /\ disk' = disk)
        /\ saver_task' = "sleeping" => SaverJobs' = {}
        /\ Cardinality(SaverJobs') <= 1
        /\ \A j \in SaverJobs' : CopiesIn(j, jobs') = 1
        /\ \A j \in SaverJobs :
              /\ (j.pc = "replaced" /\ SaveOpen(j)) =>
                    \E k \in SaverJobs' : k.json_data = <<Document>>
              /\ (j.pc = "opened" /\ SaveWrite(j)) =>
                    (disk'.live = File(j.json_data[1]) /\ saver_task' = "done") ]_vars

(* One write of the delayed-commit task carried two mutations: the name    *)
(* and the linkbutton were set, the file written before them is the        *)
(* backup, and the live file holds both.                                   *)
C34_Witness ==
    /\ saver_task = "done" /\ jobs = EmptyBag
    /\ DOMAIN bridge_config = {"name", "linkbutton"}
    /\ disk.backup.exists /\ disk.backup.complete
    /\ disk.backup.doc[1].bridge_config = <<>>
    /\ disk.live = File(Document)

(* C35: the light id of a 9-byte light record is the big-endian value of   *)
(* its bytes 1 and 2, so every command of a record goes to the light       *)
(* byte1 * 256 + byte2 and records whose two id bytes differ address       *)
(* different lights.                                                       *)
C35_LightIdIsBigEndian ==
    \A i, j \in 1..Len(stream_calls) :
        /\ stream_calls[i].light_id =
              stream_calls[i].id_bytes[1] * 256 + stream_calls[i].id_bytes[2]
        /\ stream_calls[i].id_bytes # stream_calls[j].id_bytes =>
              stream_calls[i].light_id # stream_calls[j].light_id

(* The packets handed to __process_packet whose light records are whole    *)
(* and name the stored light.                                              *)
WellFormedPacket(pkt) ==
    /\ Len(pkt) > 16 /\ (Len(pkt) - 16) % 9 = 0
    /\ \A c \in 1..((Len(pkt) - 16) \div 9) :
          pkt[16 + (c - 1) * 9 + 2] * 256 + pkt[16 + (c - 1) * 9 + 3] \in DOMAIN lights

(* C37: a streamed frame that names a light id without a record, or whose  *)
(* light payload is not a whole number of 9-byte records, is dropped and   *)
(* does not end frame processing: while bytes of the stream are unread     *)
(* the loop of the session goes on, and every well-formed frame that was   *)
(* cut out of the stream has been turned into commands.                    *)
C37_BadFrameIsDropped ==
    entertainment_api # <<>> =>
       /\ nread < Len(stdout) => entertainment_api[1].pc = "running"
       /\ \A i \in 1..Len(packets) :
             WellFormedPacket(packets[i]) =>
                \E c \in 1..Len(stream_calls) : stream_calls[c].seq = packets[i][12]

(* The colour attributes in a service data dict, and the attribute that a  *)
(* color_mode names.                                                       *)
ColourKeys(data) ==
    {k \in {"color_temp", "hs_color", "xy_color", "rgb_color"} :
        IF k = "color_temp" THEN data[k] # None ELSE data[k] # NoneT}
AttributeOf(color_mode) ==
    IF color_mode = "color_temp" THEN "color_temp"
    ELSE IF color_mode = "hs" THEN "hs_color"
    ELSE IF color_mode = "xy" THEN "xy_color"
    ELSE "rgb_color"

(* C36: the service data of a command's turn_on carries the colour         *)
(* attribute named by the command's color_mode and no other colour         *)
(* attribute, also when the command set more than one colour attribute.    *)
C36_DataFollowsColourMode ==
    \A rq \in BackendCalls :
        (rq.control_state[1].power_state
         /\ rq.control_state[1].color_mode # NoneS) =>
            ColourKeys(to_hass_data(rq.control_state[1]))
               = {AttributeOf(rq.control_state[1].color_mode)}

(* C38: whenever the .backup file exists it holds one complete document,   *)
(* also when the save of a hard delete runs in the executor together with  *)
(* the save of the delayed-commit task.                                    *)
C38_BackupIsWhole == disk.backup.exists => disk.backup.complete

(* The answer to a GET of the bridge configuration whose path has no       *)
(* username or one that is not stored.                                     *)
AnonymousConfigAnswered ==
    /\ resp.sent /\ resp.route = "get_bridge_config"
    /\ (resp.arg = None \/ resp.arg \notin DOMAIN users)

(* C39: the response to GET /api/config, and to GET /api/{u}/config with a *)
(* username that is not stored, does not depend on the stored users: it is *)
(* the name and the addresses of the bridge and carries no whitelist.      *)
C39_AnonymousConfigHidesUsers ==
    AnonymousConfigAnswered =>
       /\ "whitelist" \notin DOMAIN resp.config
       /\ resp.config = [name |-> bridge_name, mac |-> "mac", bridgeid |-> "bridgeid"]

(* GET /api/0/config, 0 not stored, read the configuration of a bridge     *)
(* that has two stored users and a name of its own.                        *)
C39_Witness ==
    /\ AnonymousConfigAnswered /\ resp.arg = 0
    /\ resp.username = match_username(0, TRUE)
    /\ DOMAIN users = {1, 2}
    /\ resp.config.name = "a"

(* The groups that were allocated for a backend area.                      *)
AreaGroups == {g \in DOMAIN groups : "area_id" \in DOMAIN groups[g]}

(* C40: deleting a group that was allocated for a backend area only        *)
(* disables it: no step removes the record of such a group or changes its  *)
(* area_id, so the area keeps its group_id.                                *)
C40_AreaGroupOnlyDisabled ==
    [][ \A g \in AreaGroups :
           /\ g \in DOMAIN groups'
           /\ "area_id" \in DOMAIN groups'[g]
           /\ groups'[g].area_id = groups[g].area_id ]_vars

====
